---- MODULE Spec2Model ----
(***************************************************************************)
(* Model of the python-analytics-service core of prometheus-global-guardian *)
(*   analytics/unified_model.py        UnifiedHazardModel                   *)
(*   analytics/quality_monitor.py      DataQualityMonitor                   *)
(*   analytics/pivot_table_analyzer.py FourDimensionalPivotTable            *)
(*                                                                         *)
(* Real numbers are scaled integers.  Magnitudes are in tenths, quality    *)
(* scores in 1/10000 (the code rounds them to 4 decimals), the weighted    *)
(* overall sum in 1/1000000, ages in hours, analyzer timestamps in         *)
(* half-days.                                                              *)
(***************************************************************************)
EXTENDS Integers, Sequences, FiniteSets, TLC

VARIABLES
    severity_calls,   \* log of calculate_severity calls: <<type, magnitude, result>>
    row,              \* the row handed to _classify_region
    region,           \* the label _classify_region returned for row
    dataframes,       \* the *dataframes argument of merge_sources, built by the caller
    merged,           \* what merge_sources returned: [returned, rows]
    df,               \* the dataset handed to assess_quality: [columns, rows]
    report,           \* what assess_quality returned
    quality_history,  \* DataQualityMonitor.quality_history
    reports,          \* the reports argument of compare_sources
    comparison,       \* what compare_sources returned
    pivot_df,         \* FourDimensionalPivotTable.df after _preprocess_data
    pivot_result,     \* what the analysis called on the analyzer returned
    pivot_args,       \* the arguments of the query or pivot call on the analyzer
    raw_data,         \* the provider payload handed to an adapter: [adapter, items]
    adapted,          \* what the adapter returned: [returned, rows, columns]
    returned_reports, \* the reports assess_quality has returned on this monitor, in call order
    trend,            \* what get_quality_trend returned, when it was the latest call
    input_df,          \* the dataset object the caller hands to FourDimensionalPivotTable: [object, columns, rows]
    etl_args,  \* the arguments of the ETLProcessor call
    etl_result,  \* what the ETLProcessor call returned
    converted_columns,  \* the columns of the dataset convert_to_dataframe returned
    df_columns,  \* the columns of that dataset object now
    task_pc,  \* where each executor task of comprehensive_analysis is
    observed,  \* the columns each task, and the quality assessment, last read
    clock,  \* datetime.now() in seconds, and the number of times it has advanced: [now, ticks]
    cache,  \* StatisticalAnalyzer._cache_timestamps: the time each key was stored, or NoEntry
    lookup  \* what the latest _get_from_cache returned: [key, found, hit, elapsed]

severityVars == <<severity_calls>>
regionVars == <<row, region>>
mergeVars == <<dataframes, merged>>
qualityVars == <<df, report, quality_history, reports, comparison>>
pivotVars == <<pivot_df, pivot_result, pivot_args>>
adapterVars == <<raw_data, adapted>>
cacheVars == <<clock, cache, lookup>>
analysisVars == <<converted_columns, df_columns, task_pc, observed>>
etlVars == <<etl_args, etl_result>>
inputVars == <<input_df>>
historyVars == <<returned_reports, trend>>

vars == <<severity_calls, row, region, dataframes, merged, df, report, quality_history,
         reports, comparison,
         pivot_df, pivot_result, pivot_args, raw_data, adapted,
         returned_reports, trend,
         input_df,
         etl_args, etl_result,
         converted_columns, df_columns, task_pc, observed,
         clock, cache, lookup>>

NotCalled == "not-called"
\* No call has returned a dataset yet.
NoResult == [returned |-> FALSE, rows |-> <<>>, columns |-> <<>>]

\* list(SCHEMA.keys()): the column order of a canonical DataFrame.
SchemaColumns ==
    << "id", "type", "source", "timestamp", "latitude", "longitude", "magnitude",
       "severity", "title", "description", "populationExposed", "confidence" >>

(***************************************************************************)
(* unified_model.py: severity classification                               *)
(***************************************************************************)

\* Number of calculate_severity calls a behaviour logs.
MaxSeverityCalls == 2

\* SEVERITY_THRESHOLDS, magnitudes in tenths.
SEVERITY_THRESHOLDS ==
    [ earthquake |-> [low |-> 30,   medium |-> 50,    high |-> 65,    critical |-> 75],
      wildfire   |-> [low |-> 1000, medium |-> 10000, high |-> 50000, critical |-> 100000],
      flood      |-> [low |-> 0,    medium |-> 0,     high |-> 0,     critical |-> 0],
      default    |-> [low |-> 0,    medium |-> 0,     high |-> 0,     critical |-> 0] ]

\* dict.get(hazard_type, SEVERITY_THRESHOLDS['default'])
ThresholdsFor(hazard_type) ==
    IF hazard_type \in DOMAIN SEVERITY_THRESHOLDS
    THEN SEVERITY_THRESHOLDS[hazard_type]
    ELSE SEVERITY_THRESHOLDS["default"]

\* Mutant: the medium band is tested with <= instead of >=.
calculate_severity_flipped(hazard_type, magnitude) ==
    LET thresholds == ThresholdsFor(hazard_type) IN
    IF magnitude >= thresholds.critical THEN "critical"
    ELSE IF magnitude >= thresholds.high THEN "high"
    ELSE IF magnitude <= thresholds.medium THEN "medium"
    ELSE "low"

calculate_severity(hazard_type, magnitude) ==
    LET thresholds == ThresholdsFor(hazard_type) IN
    IF magnitude >= thresholds.critical THEN "critical"
    ELSE IF magnitude >= thresholds.high THEN "high"
    ELSE IF magnitude >= thresholds.medium THEN "medium"
    ELSE "low"

\* Hazard types handed to calculate_severity: the table's keys, the types the
\* adapters produce without a table entry, and the adapters' 'unknown'.
KnownThresholdTypes == {"earthquake", "wildfire", "flood"}
UnknownTypes == {"cyclone", "unknown"}
HazardTypes == KnownThresholdTypes \cup UnknownTypes

\* Magnitudes (tenths) on both sides of every threshold, and below zero.
Magnitudes ==
    {-10, 0, 1, 29, 30, 49, 50, 64, 65, 74, 75, 76,
     999, 1000, 9999, 10000, 49999, 50000, 99999, 100000}

CalculateSeverity(hazard_type, magnitude) ==
    /\ Len(severity_calls) < MaxSeverityCalls
    /\ severity_calls' = Append(severity_calls,
           [hazard_type |-> hazard_type, magnitude |-> magnitude,
            severity |-> calculate_severity(hazard_type, magnitude)])
    /\ UNCHANGED <<cacheVars, analysisVars, etlVars, inputVars, historyVars, adapterVars, regionVars, mergeVars, qualityVars, pivotVars>>

(***************************************************************************)
(* pivot_table_analyzer.py: geographic classification                      *)
(***************************************************************************)

InBox(lat, lng, latLo, latHi, lngLo, lngHi) ==
    latLo <= lat /\ lat <= latHi /\ lngLo <= lng /\ lng <= lngHi

\* Mutant: the Africa box is tested before the Europe box.
classify_region_africa_first(r) ==
    LET lat == r.lat  lng == r.lng IN
    IF InBox(lat, lng, -10, 60, 60, 180) THEN "Asia-Pacific"
    ELSE IF InBox(lat, lng, 15, 75, -170, -50) THEN "North America"
    ELSE IF InBox(lat, lng, -35, 40, -20, 55) THEN "Africa"
    ELSE IF InBox(lat, lng, 35, 70, -10, 60) THEN "Europe"
    ELSE IF InBox(lat, lng, -60, 15, -85, -30) THEN "South America"
    ELSE "Other"

_classify_region(r) ==
    LET lat == r.lat  lng == r.lng IN
    IF InBox(lat, lng, -10, 60, 60, 180) THEN "Asia-Pacific"
    ELSE IF InBox(lat, lng, 15, 75, -170, -50) THEN "North America"
    ELSE IF InBox(lat, lng, 35, 70, -10, 60) THEN "Europe"
    ELSE IF InBox(lat, lng, -60, 15, -85, -30) THEN "South America"
    ELSE IF InBox(lat, lng, -35, 40, -20, 55) THEN "Africa"
    ELSE "Other"

\* Whole-degree grid over [-90,90] x [-180,180]; every box edge is a whole degree.
Latitudes == -90 .. 90
Longitudes == -180 .. 180

ClassifyRegion ==
    /\ region = NotCalled
    /\ region' = _classify_region(row)
    /\ UNCHANGED <<cacheVars, analysisVars, etlVars, inputVars, historyVars, adapterVars, severity_calls, row, mergeVars, qualityVars, pivotVars>>

(***************************************************************************)
(* unified_model.py: merge_sources                                         *)
(***************************************************************************)

\* Number of records the caller builds for one merge_sources call (a dataset
\* passed twice is built once).
MaxMergeRows == 3
\* Number of datasets handed to one merge_sources call.
MaxDataframes == 2

\* Canonical records, reduced to the columns merge_sources reads (id and
\* timestamp) and one payload column that tells two records with the same
\* key apart.
MergeRecords == [id : {"a", "b"}, timestamp : {1, 2}, source : {"USGS", "GDACS"}]

RECURSIVE SumLen(_)
SumLen(dfs) == IF dfs = <<>> THEN 0 ELSE Len(Head(dfs)) + SumLen(Tail(dfs))

\* valid_dfs = [df for df in dataframes if not df.empty]; pd.concat(valid_dfs)
RECURSIVE Concat(_)
Concat(dfs) == IF dfs = <<>> THEN <<>> ELSE Head(dfs) \o Concat(Tail(dfs))

\* The subsequence of s at the positions in idx, in order.
RECURSIVE Pick(_, _, _)
Pick(s, idx, i) ==
    IF i > Len(s) THEN <<>>
    ELSE (IF i \in idx THEN <<s[i]>> ELSE <<>>) \o Pick(s, idx, i + 1)

\* Mutant: duplicates are dropped on id alone.
drop_duplicates_id_only(s) ==
    Pick(s, {i \in 1 .. Len(s) : \A j \in 1 .. (i - 1) : s[j].id # s[i].id}, 1)

\* Mutant: only a duplicate that directly follows its first occurrence is dropped.
drop_duplicates_adjacent(s) ==
    Pick(s, {i \in 1 .. Len(s) :
                i = 1 \/ s[i - 1].id # s[i].id \/ s[i - 1].timestamp # s[i].timestamp}, 1)

\* Mutant: every row whose key occurs more than once is dropped (keep=False).
drop_duplicates_keep_none(s) ==
    Pick(s, {i \in 1 .. Len(s) :
                \A j \in (1 .. Len(s)) \ {i} :
                    s[j].id # s[i].id \/ s[j].timestamp # s[i].timestamp}, 1)

\* merged.drop_duplicates(subset=['id', 'timestamp'], keep='first')
drop_duplicates(s) ==
    Pick(s, {i \in 1 .. Len(s) :
                \A j \in 1 .. (i - 1) :
                    s[j].id # s[i].id \/ s[j].timestamp # s[i].timestamp}, 1)

IndexPermutations(n) == {p \in [1 .. n -> 1 .. n] : \A i, j \in 1 .. n : p[i] = p[j] => i = j}

\* Mutant: the rows are ordered by timestamp ascending.
sort_values_asc(s) ==
    {[i \in 1 .. Len(s) |-> s[p[i]]] : p \in
        {q \in IndexPermutations(Len(s)) :
            \A i \in 1 .. (Len(s) - 1) : s[q[i]].timestamp <= s[q[i + 1]].timestamp}}

\* merged.sort_values('timestamp', ascending=False).reset_index(drop=True):
\* every ordering of s by timestamp descending.  The default sort kind is
\* quicksort, which is not stable, so the order among equal timestamps is
\* any order.
sort_values_desc(s) ==
    {[i \in 1 .. Len(s) |-> s[p[i]]] : p \in
        {q \in IndexPermutations(Len(s)) :
            \A i \in 1 .. (Len(s) - 1) : s[q[i]].timestamp >= s[q[i + 1]].timestamp}}

\* create_empty_dataframe(): no rows, the SCHEMA columns.
EmptyDataframe == <<>>
create_empty_dataframe == [returned |-> TRUE, rows |-> EmptyDataframe, columns |-> SchemaColumns]

\* merge_sources(*dataframes): the tables one call can return.  The inputs
\* being canonical, the concatenation has the SCHEMA columns.
merge_sources(dfs) ==
    IF dfs = <<>> \/ Concat(dfs) = <<>>
    THEN {create_empty_dataframe}
    ELSE {[returned |-> TRUE, rows |-> out, columns |-> SchemaColumns] :
              out \in sort_values_desc(drop_duplicates(Concat(dfs)))}

\* The caller adds one more (still empty) dataset to the argument list.
AddDataframe ==
    /\ merged = NoResult
    /\ Len(dataframes) < MaxDataframes
    /\ dataframes' = Append(dataframes, <<>>)
    /\ UNCHANGED <<cacheVars, analysisVars, etlVars, inputVars, historyVars, adapterVars, severityVars, regionVars, merged, qualityVars, pivotVars>>

\* The caller adds one record to the last dataset of the argument list.
AddRecord(r) ==
    /\ merged = NoResult
    /\ dataframes # <<>>
    /\ SumLen(dataframes) < MaxMergeRows
    /\ dataframes' = [dataframes EXCEPT ![Len(dataframes)] = Append(@, r)]
    /\ UNCHANGED <<cacheVars, analysisVars, etlVars, inputVars, historyVars, adapterVars, severityVars, regionVars, merged, qualityVars, pivotVars>>

\* The caller passes the last dataset once more (merge_sources(df, df)).
AddSameDataframe ==
    /\ merged = NoResult
    /\ dataframes # <<>>
    /\ Len(dataframes) < MaxDataframes
    /\ dataframes' = Append(dataframes, dataframes[Len(dataframes)])
    /\ UNCHANGED <<cacheVars, analysisVars, etlVars, inputVars, historyVars, adapterVars, severityVars, regionVars, merged, qualityVars, pivotVars>>

MergeSources ==
    /\ merged = NoResult
    /\ merged' \in merge_sources(dataframes)
    /\ UNCHANGED <<cacheVars, analysisVars, etlVars, inputVars, historyVars, adapterVars, severityVars, regionVars, dataframes, qualityVars, pivotVars>>

(***************************************************************************)
(* quality_monitor.py: the five dimension checks                           *)
(*                                                                         *)
(* A dataset is [columns, rows]: the columns the DataFrame has and its     *)
(* rows, each row a record over the canonical schema (a row's value in an  *)
(* absent column is never read).  Each dimension result keeps its score,   *)
(* status and issues; the recommendations list grows in lockstep with the  *)
(* issues list and is left out.                                            *)
(***************************************************************************)

\* Number of rows of a dataset handed to assess_quality.
MaxQualityRows == 3
\* Number of reports the history may hold before the model stops calling.
MaxHistoryLen == 1

\* A missing value of a float column (np.nan) and of a string column (None).
NaN == -999999
None == "None"

FloatColumns == {"latitude", "longitude", "magnitude", "populationExposed", "confidence"}

REQUIRED_FIELDS == << "id", "type", "timestamp", "latitude", "longitude" >>

\* DATA_CONSTRAINTS in dict order; magnitude in tenths, confidence in
\* hundredths; populationExposed has the upper bound float('inf').
DATA_CONSTRAINTS ==
    << [field |-> "latitude",          min |-> -90,  max |-> 90,  bounded |-> TRUE],
       [field |-> "longitude",         min |-> -180, max |-> 180, bounded |-> TRUE],
       [field |-> "magnitude",         min |-> 0,    max |-> 100, bounded |-> TRUE],
       [field |-> "populationExposed", min |-> 0,    max |-> 0,   bounded |-> FALSE],
       [field |-> "confidence",        min |-> 0,    max |-> 100, bounded |-> TRUE] >>

\* QUALITY_THRESHOLDS in percent.
QUALITY_THRESHOLDS ==
    [completeness |-> 90, accuracy |-> 95, consistency |-> 98, timeliness |-> 85,
     validity |-> 95]

RECURSIVE SumSeq(_)
SumSeq(s) == IF s = <<>> THEN 0 ELSE Head(s) + SumSeq(Tail(s))

RECURSIVE Flatten(_)
Flatten(ss) == IF ss = <<>> THEN <<>> ELSE Head(ss) \o Flatten(Tail(ss))

SeqToSet(s) == {s[i] : i \in 1 .. Len(s)}

\* Series.unique(): the distinct values in order of first appearance.
Unique(s) == Pick(s, {i \in 1 .. Len(s) : \A j \in 1 .. (i - 1) : s[j] # s[i]}, 1)

\* Series.isna() of one cell.
IsNa(r, col) ==
    IF col = "timestamp" THEN r.timestamp.kind = "NaT"
    ELSE IF col \in FloatColumns THEN r[col] = NaN
    ELSE r[col] = None

\* round(p / q, 4) in units of 1/10000, for q > 0: to the nearest, an exact
\* half to the even neighbour.
Round4(p, q) ==
    LET x == 10000 * p
        f == x \div q
        twice == 2 * (x - f * q)
    IN  IF twice < q THEN f
        ELSE IF twice > q THEN f + 1
        ELSE IF f % 2 = 0 THEN f ELSE f + 1

\* 'pass' if score >= threshold else 'fail', for the score num / den.
PassFail(num, den, percent) == IF 100 * num >= percent * den THEN "pass" ELSE "fail"

Issue(what, about) == [issue |-> what, about |-> about]

\* df.empty: no rows or no columns.
IsEmpty(d) == d.rows = <<>> \/ d.columns = {}

\* df.columns, in schema order.
ColumnsOf(d) == SelectSeq(SchemaColumns, LAMBDA c : c \in d.columns)

_check_completeness(d) ==
    LET n == Len(d.rows)
        cols == ColumnsOf(d)
        non_null_count(col) == Cardinality({i \in 1 .. n : ~IsNa(d.rows[i], col)})
        missing_fields == SelectSeq(REQUIRED_FIELDS, LAMBDA f : f \notin d.columns)
        total == SumSeq([k \in 1 .. Len(cols) |-> non_null_count(cols[k])])
        \* avg_completeness = total / (n * len(df.columns))
        den == n * Len(cols)
    IN  [ score  |-> IF Len(cols) > 0 THEN Round4(total, den) ELSE 0,
          status |-> IF Len(cols) > 0 THEN PassFail(total, den, QUALITY_THRESHOLDS.completeness)
                     ELSE "fail",
          issues |->
              (IF missing_fields # <<>> THEN <<Issue("Missing required fields", "")>> ELSE <<>>)
              \o Flatten([k \in 1 .. Len(cols) |->
                     IF cols[k] \in SeqToSet(REQUIRED_FIELDS) /\ non_null_count(cols[k]) < n
                     THEN <<Issue("Required field has missing values", cols[k])>>
                     ELSE <<>>]) ]

_check_accuracy(d) ==
    LET n == Len(d.rows)
        present == SelectSeq(DATA_CONSTRAINTS, LAMBDA c : c.field \in d.columns)
        valid(c) == {i \in 1 .. n : d.rows[i][c.field] # NaN}
        out_of_range(c) ==
            {i \in valid(c) : \/ d.rows[i][c.field] < c.min
                              \/ (c.bounded /\ d.rows[i][c.field] > c.max)}
        coords == "latitude" \in d.columns /\ "longitude" \in d.columns
        invalid_coords ==
            IF coords
            THEN {i \in 1 .. n : d.rows[i].latitude = 0 /\ d.rows[i].longitude = 0}
            ELSE {}
        out_of_range_count ==
            SumSeq([k \in 1 .. Len(present) |-> Cardinality(out_of_range(present[k]))])
            + Cardinality(invalid_coords)
        total_checks ==
            SumSeq([k \in 1 .. Len(present) |-> Cardinality(valid(present[k]))])
            + (IF invalid_coords # {} THEN n ELSE 0)
    IN  [ score  |-> IF total_checks > 0
                     THEN Round4(total_checks - out_of_range_count, total_checks)
                     ELSE 10000,
          status |-> IF total_checks > 0
                     THEN PassFail(total_checks - out_of_range_count, total_checks,
                                   QUALITY_THRESHOLDS.accuracy)
                     ELSE "pass",
          issues |->
              Flatten([k \in 1 .. Len(present) |->
                  IF out_of_range(present[k]) # {}
                  THEN <<Issue("Field has values out of range", present[k].field)>>
                  ELSE <<>>])
              \o (IF invalid_coords # {}
                  THEN <<Issue("records have invalid coordinates (0, 0)", "")>> ELSE <<>>) ]

known_types == {"earthquake", "wildfire", "flood", "volcano", "cyclone", "storm"}
known_sources == {"USGS", "NASA", "GDACS"}
known_severities == {"low", "medium", "high", "critical"}

\* inconsistency_count of _check_consistency: duplicate ids plus rows of an
\* unknown type plus rows of an unknown source plus rows of an unknown severity.
InconsistencyCount(d) ==
    LET n == Len(d.rows) IN
      (IF "id" \in d.columns
       THEN Cardinality({i \in 1 .. n : \E j \in 1 .. (i - 1) : d.rows[j].id = d.rows[i].id})
       ELSE 0)
    + (IF "type" \in d.columns
       THEN Cardinality({i \in 1 .. n : d.rows[i].type \notin known_types})
       ELSE 0)
    + (IF "source" \in d.columns
       THEN Cardinality({i \in 1 .. n : d.rows[i].source \notin known_sources})
       ELSE 0)
    + (IF "severity" \in d.columns
       THEN Cardinality({i \in 1 .. n : d.rows[i].severity # None
                                         /\ d.rows[i].severity \notin known_severities})
       ELSE 0)

_check_consistency(d) ==
    LET n == Len(d.rows)
        has(col, P(_)) == col \in d.columns /\ \E i \in 1 .. n : P(d.rows[i])
        inconsistency_count == InconsistencyCount(d)
    IN  [ score  |-> IF n > 0 THEN Round4(n - inconsistency_count, n) ELSE 10000,
          status |-> IF n > 0
                     THEN PassFail(n - inconsistency_count, n, QUALITY_THRESHOLDS.consistency)
                     ELSE "pass",
          issues |->
              (IF "id" \in d.columns
                  /\ \E i \in 1 .. n : \E j \in 1 .. (i - 1) : d.rows[j].id = d.rows[i].id
               THEN <<Issue("Found duplicate IDs", "id")>> ELSE <<>>)
              \o (IF has("type", LAMBDA r : r.type \notin known_types)
                  THEN <<Issue("Found unknown hazard types", "type")>> ELSE <<>>)
              \o (IF has("source", LAMBDA r : r.source \notin known_sources)
                  THEN <<Issue("Found unknown data sources", "source")>> ELSE <<>>)
              \o (IF has("severity", LAMBDA r : r.severity # None
                                                 /\ r.severity \notin known_severities)
                  THEN <<Issue("Found invalid severity levels", "severity")>> ELSE <<>>) ]

\* Mutant: records older than 30 days weigh as much as those of the month.
weighted_ages_old_as_month(recent_count, week_count, month_count, old_count) ==
    recent_count * 10 + week_count * 9 + month_count * 7 + old_count * 7

\* recent_count * 1.0 + week_count * 0.9 + month_count * 0.7 + old_count * 0.5,
\* in tenths.
weighted_ages(recent_count, week_count, month_count, old_count) ==
    recent_count * 10 + week_count * 9 + month_count * 7 + old_count * 5

\* Age buckets of _check_timeliness, ages in hours.  A NaT compares False with
\* everything and falls in no bucket.
_check_timeliness(d) ==
    LET n == Len(d.rows)
        ts(i) == d.rows[i].timestamp
        aged == {i \in 1 .. n : ts(i).kind = "age"}
        recent_count == Cardinality({i \in aged : ts(i).hours <= 24})
        week_count == Cardinality({i \in aged : ts(i).hours > 24 /\ ts(i).hours <= 168})
        month_count == Cardinality({i \in aged : ts(i).hours > 168 /\ ts(i).hours <= 720})
        old_count == Cardinality({i \in aged : ts(i).hours > 720})
        future_count == Cardinality({i \in aged : ts(i).hours < 0})
        \* (recent*1.0 + week*0.9 + month*0.7 + old*0.5) / total, in tenths
        weighted == weighted_ages(recent_count, week_count, month_count, old_count)
    IN  IF "timestamp" \notin d.columns \/ \A i \in 1 .. n : ts(i).kind = "NaT"
        THEN [ score |-> 0, status |-> "fail",
               issues |-> <<Issue("Timestamp field is missing or empty", "timestamp")>> ]
        ELSE IF \E i \in 1 .. n : ts(i).kind = "unparsable"
        \* pd.to_datetime raises; the except branch answers
        THEN [ score |-> 0, status |-> "error",
               issues |-> <<Issue("Failed to assess timeliness", "timestamp")>> ]
        ELSE [ score  |-> IF n > 0 THEN Round4(weighted, 10 * n) ELSE 0,
               status |-> IF n > 0
                          THEN PassFail(weighted, 10 * n, QUALITY_THRESHOLDS.timeliness)
                          ELSE "fail",
               future_timestamps |-> future_count,
               issues |->
                   (IF future_count > 0
                    THEN <<Issue("records have future timestamps", "timestamp")>> ELSE <<>>)
                   \o (IF old_count > 0
                       THEN <<Issue("records are older than 30 days", "timestamp")>> ELSE <<>>) ]

_check_validity(d) ==
    LET n == Len(d.rows)
        has_conf == "confidence" \in d.columns
        low_confidence ==
            IF has_conf
            THEN {i \in 1 .. n : d.rows[i].confidence # NaN /\ d.rows[i].confidence < 50}
            ELSE {}
        cross == {"severity", "magnitude", "type"} \subseteq d.columns
        types == IF cross THEN Unique([i \in 1 .. n |-> d.rows[i].type]) ELSE <<>>
        critical_data(t) ==
            {i \in 1 .. n : d.rows[i].type = t /\ d.rows[i].severity = "critical"}
        low_mag_critical(t) ==
            {i \in critical_data(t) : d.rows[i].magnitude # NaN /\ d.rows[i].magnitude < 50}
        has_pop == "populationExposed" \in d.columns
        extreme_pop ==
            IF has_pop
            THEN {i \in 1 .. n : d.rows[i].populationExposed # NaN
                                  /\ d.rows[i].populationExposed > 100000000}
            ELSE {}
        invalid_count ==
            Cardinality(low_confidence)
            + SumSeq([k \in 1 .. Len(types) |-> Cardinality(low_mag_critical(types[k]))])
            + Cardinality(extreme_pop)
        total_checks ==
            (IF has_conf THEN n ELSE 0)
            + SumSeq([k \in 1 .. Len(types) |->
                  IF low_mag_critical(types[k]) # {}
                  THEN Cardinality(critical_data(types[k])) ELSE 0])
            + (IF has_pop THEN n ELSE 0)
    IN  [ score  |-> IF total_checks > 0
                     THEN Round4(total_checks - invalid_count, total_checks)
                     ELSE 10000,
          status |-> IF total_checks > 0
                     THEN PassFail(total_checks - invalid_count, total_checks,
                                   QUALITY_THRESHOLDS.validity)
                     ELSE "pass",
          issues |->
              (IF low_confidence # {}
               THEN <<Issue("records have low confidence (<0.5)", "confidence")>> ELSE <<>>)
              \o Flatten([k \in 1 .. Len(types) |->
                     IF low_mag_critical(types[k]) # {}
                     THEN <<Issue("records marked 'critical' have low magnitude", types[k])>>
                     ELSE <<>>])
              \o (IF extreme_pop # {}
                  THEN <<Issue("records have unrealistic population exposure (>100M)",
                               "populationExposed")>>
                  ELSE <<>>) ]

(***************************************************************************)
(* quality_monitor.py: assess_quality                                      *)
(***************************************************************************)

\* Mutant: the consistency and accuracy weights are exchanged.
WeightedSumSwapped(c, a, k, t, v) == 25 * c + 20 * a + 25 * k + 15 * t + 15 * v

\* completeness*0.25 + accuracy*0.25 + consistency*0.20 + timeliness*0.15 +
\* validity*0.15 of the (rounded) dimension scores, in units of 1/1000000.
WeightedSum(c, a, k, t, v) == 25 * c + 25 * a + 20 * k + 15 * t + 15 * v

\* round(overall_score, 4) of the floating-point sum: the nearest 1/10000; a
\* sum whose exact value lies half-way rounds to whichever side the
\* floating-point error of the sum puts it.
RoundOverall(w) ==
    LET f == w \div 100
        r == w - 100 * f
    IN  IF r < 50 THEN {f} ELSE IF r > 50 THEN {f + 1} ELSE {f, f + 1}

\* Mutant: the status is read off the rounded overall_score.
OverallStatusOfRounded(w) ==
    LET f == w \div 100
        rounded == IF w - 100 * f < 50 THEN f ELSE f + 1
    IN  IF rounded >= 8500 THEN {"pass"}
        ELSE IF rounded >= 7000 THEN {"warning"}
        ELSE {"fail"}

\* 'pass' if overall_score >= 0.85 else 'warning' if overall_score >= 0.70 else
\* 'fail', on the unrounded floating-point sum: a sum whose exact value is a
\* threshold compares to whichever side the floating-point error puts it
\* (0.5*0.25 + 1.0*0.25 + 0.95*0.20 + 0.95*0.15 + 0.95*0.15 is
\* 0.8499999999999999).
OverallStatus(w) ==
    IF w > 850000 THEN {"pass"}
    ELSE IF w = 850000 THEN {"pass", "warning"}
    ELSE IF w > 700000 THEN {"warning"}
    ELSE IF w = 700000 THEN {"warning", "fail"}
    ELSE {"fail"}

\* Mutant: the empty report carries the 'warning' status and no issue.
empty_quality_report_silent(source) ==
    [ returned |-> TRUE, source |-> source, record_count |-> 0, overall_score |-> 0,
      overall_status |-> "warning", dimensions |-> <<>>, issues |-> <<>> ]

_empty_quality_report(source) ==
    [ returned |-> TRUE, source |-> source, record_count |-> 0, overall_score |-> 0,
      overall_status |-> "fail", dimensions |-> <<>>,
      issues |-> <<Issue("No data to assess", "")>> ]

NoReport == [returned |-> FALSE]

\* The reports assess_quality may return for a non-empty dataset.
QualityReports(d, source) ==
    LET completeness == _check_completeness(d)
        accuracy == _check_accuracy(d)
        consistency == _check_consistency(d)
        timeliness == _check_timeliness(d)
        validity == _check_validity(d)
        overall == WeightedSum(completeness.score, accuracy.score, consistency.score,
                               timeliness.score, validity.score)
    IN  { [ returned |-> TRUE, source |-> source, record_count |-> Len(d.rows),
            overall_score |-> score, overall_status |-> status,
            dimensions |-> [ completeness |-> completeness, accuracy |-> accuracy,
                             consistency |-> consistency, timeliness |-> timeliness,
                             validity |-> validity ],
            issues |-> completeness.issues \o accuracy.issues \o consistency.issues
                       \o timeliness.issues \o validity.issues ] :
          score \in RoundOverall(overall), status \in OverallStatus(overall) }

AssessQuality(source) ==
    /\ Len(quality_history) < MaxHistoryLen
    /\ IF IsEmpty(df)
       THEN /\ report' = _empty_quality_report(source)
            /\ UNCHANGED quality_history
       ELSE \E r \in QualityReports(df, source) :
                /\ report' = r
                /\ quality_history' = Append(quality_history, r)
    /\ UNCHANGED <<cacheVars, analysisVars, etlVars, inputVars, historyVars, adapterVars, severityVars, regionVars, mergeVars, df, reports, comparison, pivotVars>>

(***************************************************************************)
(* Datasets handed to assess_quality                                       *)
(***************************************************************************)

\* type, source and severity of a record: all from the known vocabularies
\* (severity low or critical), or none.
LabelsLow == [type |-> "earthquake", source |-> "USGS", severity |-> "low"]
LabelsCritical == [type |-> "earthquake", source |-> "USGS", severity |-> "critical"]
LabelsUnknown == [type |-> "alien", source |-> "blog", severity |-> "WARNING"]

\* Measurements of a record: clean and fresh; every value out of range, low
\* confidence, implausible population, older than 30 days; the (0, 0)
\* coordinates with a small magnitude and a week-old timestamp; missing values.
MeasuredClean ==
    [latitude |-> 35, longitude |-> 139, magnitude |-> 62, confidence |-> 95,
     populationExposed |-> 0, timestamp |-> [kind |-> "age", hours |-> 1]]
MeasuredDirty ==
    [latitude |-> 100, longitude |-> 200, magnitude |-> 150, confidence |-> 10,
     populationExposed |-> 200000000, timestamp |-> [kind |-> "age", hours |-> 1000]]
MeasuredZero ==
    [latitude |-> 0, longitude |-> 0, magnitude |-> 20, confidence |-> 85,
     populationExposed |-> 0, timestamp |-> [kind |-> "age", hours |-> 100]]
MeasuredMissing ==
    [latitude |-> NaN, longitude |-> NaN, magnitude |-> NaN, confidence |-> 70,
     populationExposed |-> NaN, timestamp |-> [kind |-> "NaT", hours |-> 0]]

\* The label/measurement combinations the datasets are built from.
QualityProfiles ==
    { <<LabelsLow, MeasuredClean>>, <<LabelsLow, MeasuredZero>>,
      <<LabelsLow, MeasuredMissing>>, <<LabelsCritical, MeasuredClean>>,
      <<LabelsCritical, MeasuredZero>>, <<LabelsUnknown, MeasuredClean>>,
      <<LabelsUnknown, MeasuredDirty>> }

QualityRecords ==
    { [ id |-> i, type |-> p[1].type, source |-> p[1].source,
        timestamp |-> p[2].timestamp, latitude |-> p[2].latitude,
        longitude |-> p[2].longitude, magnitude |-> p[2].magnitude,
        severity |-> p[1].severity, title |-> "title", description |-> "description",
        populationExposed |-> p[2].populationExposed, confidence |-> p[2].confidence ] :
      i \in {"a", "b"}, p \in QualityProfiles }

\* The canonical schema, the schema without the timestamp and population
\* columns, and a bare id/type/severity table.
QualityColumnSets ==
    { SeqToSet(SchemaColumns),
      SeqToSet(SchemaColumns) \ {"timestamp", "populationExposed"},
      {"id", "type", "severity"} }

QualityRowSeqs == UNION {[1 .. n -> QualityRecords] : n \in 0 .. MaxQualityRows}

SourceLabels == {"unknown"}

\* Timestamps for the timeliness check: a future one, the evaluation
\* instant, both sides of the 24 h, 7 d and 30 d bucket edges, a missing
\* one and a string that is no date.
TimelinessTimestamps ==
    { [kind |-> "age", hours |-> h] : h \in {-5, 0, 24, 25, 168, 169, 720, 721} }
    \cup { [kind |-> "NaT", hours |-> 0], [kind |-> "unparsable", hours |-> 0] }

\* Clean records that differ in their timestamp only.
TimelinessRecords ==
    { [ id |-> "a", type |-> LabelsLow.type, source |-> LabelsLow.source,
        timestamp |-> t, latitude |-> MeasuredClean.latitude,
        longitude |-> MeasuredClean.longitude, magnitude |-> MeasuredClean.magnitude,
        severity |-> LabelsLow.severity, title |-> "title", description |-> "description",
        populationExposed |-> MeasuredClean.populationExposed,
        confidence |-> MeasuredClean.confidence ] :
      t \in TimelinessTimestamps }

TimelinessRowSeqs == UNION {[1 .. n -> TimelinessRecords] : n \in 1 .. MaxQualityRows}

\* Number of reports handed to compare_sources.
MaxReports == 3

\* compare_sources has not been called.
NoComparison == [returned |-> FALSE]

\* compare_sources(reports): {} for no reports; otherwise the sources list,
\* the average_scores dict (keys in order of first insertion, each holding
\* the score of the last report of that source) and the first key of the
\* largest, and of the smallest, value.
compare_sources(rs) ==
    IF rs = <<>>
    THEN [returned |-> TRUE, empty |-> TRUE]
    ELSE LET keys == Unique([i \in 1 .. Len(rs) |-> rs[i].source])
             average_scores ==
                 [k \in SeqToSet(keys) |->
                     rs[CHOOSE i \in 1 .. Len(rs) :
                            /\ rs[i].source = k
                            /\ \A j \in (i + 1) .. Len(rs) : rs[j].source # k].overall_score]
             first_max == CHOOSE i \in 1 .. Len(keys) :
                              /\ \A j \in 1 .. Len(keys) :
                                     average_scores[keys[j]] <= average_scores[keys[i]]
                              /\ \A j \in 1 .. (i - 1) :
                                     average_scores[keys[j]] < average_scores[keys[i]]
             first_min == CHOOSE i \in 1 .. Len(keys) :
                              /\ \A j \in 1 .. Len(keys) :
                                     average_scores[keys[j]] >= average_scores[keys[i]]
                              /\ \A j \in 1 .. (i - 1) :
                                     average_scores[keys[j]] > average_scores[keys[i]]
         IN  [returned |-> TRUE, empty |-> FALSE,
              sources |-> [i \in 1 .. Len(rs) |->
                              [source |-> rs[i].source, score |-> rs[i].overall_score]],
              average_scores |-> average_scores,
              best_source |-> keys[first_max],
              worst_source |-> keys[first_min]]

CompareSources ==
    /\ comparison = NoComparison
    /\ comparison' = compare_sources(reports)
    /\ UNCHANGED <<cacheVars, analysisVars, etlVars, inputVars, historyVars, adapterVars, severityVars, regionVars, mergeVars, df, report, quality_history,
                   reports, pivotVars>>

\* Reports, reduced to the two keys compare_sources ranks by.
ComparedReports == [source : {"USGS", "NASA"}, overall_score : {1000, 5000, 9000}]

ReportSeqs == UNION {[1 .. n -> ComparedReports] : n \in 0 .. MaxReports}

QualityIdle ==
    /\ df = [columns |-> {}, rows |-> <<>>]
    /\ report = NoReport
    /\ quality_history = <<>>
    /\ reports = <<>>
    /\ comparison = NoComparison

(***************************************************************************)
(* pivot_table_analyzer.py: FourDimensionalPivotTable analyses             *)
(***************************************************************************)

\* Number of events in the dataset the analyzer is built from.
MaxPivotRows == 4
\* Largest time_window (in days) an analysis is called with.
MaxWindow == 2

\* str.upper() on the type and severity strings of the events and queries.
Upper(s) ==
    CASE s = "earthquake" -> "EARTHQUAKE"
      [] s = "Earthquake" -> "EARTHQUAKE"
      [] s = "flood" -> "FLOOD"
      [] s = "warning" -> "WARNING"
      [] s = "Advisory" -> "ADVISORY"
      [] s = "low" -> "LOW"
      [] OTHER -> s

\* severity.map({'WARNING': 3, 'WATCH': 2, 'ADVISORY': 1}).fillna(0)
severity_level(s) ==
    CASE s = "WARNING" -> 3
      [] s = "WATCH" -> 2
      [] s = "ADVISORY" -> 1
      [] OTHER -> 0

\* timestamp.dt.date of a timestamp counted in half-days.
date_only(timestamp) == timestamp \div 2

\* _preprocess_data(): the derived columns the analyses read.
_preprocess_data(raw) ==
    [i \in 1 .. Len(raw) |->
        [timestamp |-> raw[i].timestamp,
         date_only |-> date_only(raw[i].timestamp),
         lat |-> raw[i].lat, lng |-> raw[i].lng,
         region |-> _classify_region(raw[i]),
         type |-> raw[i].type,
         type_category |-> Upper(raw[i].type),
         severity |-> raw[i].severity,
         severity_level |-> severity_level(raw[i].severity)]]

\* self.df['timestamp'].max()
end_date(d) == CHOOSE t \in {d[i].timestamp : i \in 1 .. Len(d)} :
                   \A i \in 1 .. Len(d) : d[i].timestamp <= t

\* self.df[self.df['timestamp'] >= end_date - timedelta(days=time_window)]
df_recent(d, time_window) ==
    SelectSeq(d, LAMBDA r : r.timestamp >= end_date(d) - 2 * time_window)

\* df_recent[column].unique()
UniqueOf(d, column) == Unique([i \in 1 .. Len(d) |-> d[i][column]])

\* No query or pivot call has been made.
NoArgs == [op |-> "none"]

\* No analysis has been called yet.
NoAnalysis == [op |-> "none", outcome |-> NotCalled, time_window |-> 0, rows |-> <<>>]

\* An analysis returned a table / returned pd.DataFrame() / raised.
Returned(op, time_window, rows) ==
    [op |-> op, outcome |-> "returned", time_window |-> time_window, rows |-> rows]
Raised(op, time_window, error) ==
    [op |-> op, outcome |-> error, time_window |-> time_window, rows |-> <<>>]

\* Is the fraction a at least the fraction b (denominators are positive)?
FracGeq(a, b) == a.num * b.den >= b.num * a.den

\* Mutant: the severity and recency weights are exchanged.
total_risk_swapped(n, time_window, sev, last_day) ==
    [num |-> 4 * n * n + 2 * sev * time_window + 8 * last_day * time_window * n,
     den |-> 10 * time_window * n]

\* total_risk = frequency_score * 0.4 + severity_score * 0.4 + recent_score * 0.2
\* with frequency_score = n / time_window, severity_score = sev / n (the mean
\* of n levels that sum to sev) and recent_score = 2 * last_day, kept as the
\* fraction num/den over the common denominator 10 * time_window * n.
total_risk(n, time_window, sev, last_day) ==
    [num |-> 4 * n * n + 4 * sev * time_window + 4 * last_day * time_window * n,
     den |-> 10 * time_window * n]

\* The risk_scores list of risk_score_4d before it is sorted.
risk_scores(d, time_window) ==
    LET recent == df_recent(d, time_window)
        regions == UniqueOf(recent, "region")
        types == UniqueOf(recent, "type_category")
        Entry(rg, ty) ==
            LET subset == SelectSeq(recent,
                              LAMBDA r : r.region = rg /\ r.type_category = ty)
                n == Len(subset)
                sev == SumSeq([i \in 1 .. n |-> subset[i].severity_level])
                last_day == Len(SelectSeq(subset,
                                LAMBDA r : r.timestamp >= end_date(d) - 2))
            IN  IF n > 0
                THEN << [region |-> rg, type |-> ty,
                         risk_score |-> total_risk(n, time_window, sev, last_day),
                         frequency |-> [num |-> n, den |-> time_window],
                         severity |-> [num |-> sev, den |-> n],
                         recency |-> 2 * last_day,
                         total_events |-> n,
                         time_window |-> time_window] >>
                ELSE <<>>
    IN  Flatten([i \in 1 .. Len(regions) |->
            Flatten([j \in 1 .. Len(types) |-> Entry(regions[i], types[j])])])

\* Orderings of s by risk_score ascending.
sort_values_risk_ascending(s) ==
    {[i \in 1 .. Len(s) |-> s[p[i]]] : p \in
        {q \in IndexPermutations(Len(s)) :
            \A i \in 1 .. (Len(s) - 1) :
                FracGeq(s[q[i + 1]].risk_score, s[q[i]].risk_score)}}

\* pd.DataFrame(risk_scores).sort_values('risk_score', ascending=False): every
\* ordering of s by risk_score descending (quicksort: equal scores in any order).
sort_values_risk(s) ==
    {[i \in 1 .. Len(s) |-> s[p[i]]] : p \in
        {q \in IndexPermutations(Len(s)) :
            \A i \in 1 .. (Len(s) - 1) :
                FracGeq(s[q[i]].risk_score, s[q[i + 1]].risk_score)}}

\* risk_score_4d(time_window): the outcomes of one call.
risk_score_4d(d, time_window) ==
    IF df_recent(d, time_window) = <<>>
    THEN {Returned("risk_score_4d", time_window, <<>>)}
    ELSE IF time_window = 0
    THEN {Raised("risk_score_4d", time_window, "ZeroDivisionError")}
    ELSE {Returned("risk_score_4d", time_window, rows) :
              rows \in sort_values_risk(risk_scores(d, time_window))}

\* Two distinct days are taken to be enough for a trend.
enough_days_two(daily_counts) == Cardinality(daily_counts) >= 2

\* len(daily_counts) >= 3, daily_counts being indexed by the distinct date_only.
enough_days(daily_counts) == Cardinality(daily_counts) >= 3

\* trend_analysis_4d(time_window): one entry per (region, type, severity) of
\* the window that has enough distinct days, in the order of the three loops.
\* The regression figures (slope, r_squared, p_value) are left out.
trend_analysis_4d(d, time_window) ==
    LET recent == df_recent(d, time_window)
        regions == UniqueOf(recent, "region")
        types == UniqueOf(recent, "type_category")
        severities == UniqueOf(recent, "severity")
        Entry(rg, ty, sv) ==
            LET subset == SelectSeq(recent,
                              LAMBDA r : /\ r.region = rg
                                         /\ r.type_category = ty
                                         /\ r.severity = sv)
                daily_counts == {subset[i].date_only : i \in 1 .. Len(subset)}
            IN  IF Len(subset) > 0 /\ enough_days(daily_counts)
                THEN << [region |-> rg, type |-> ty, severity |-> sv,
                         total_count |-> Len(subset),
                         daily_average |-> [num |-> Len(subset),
                                            den |-> Cardinality(daily_counts)]] >>
                ELSE <<>>
    IN  Returned("trend_analysis_4d", time_window,
            Flatten([i \in 1 .. Len(regions) |->
                Flatten([j \in 1 .. Len(types) |->
                    Flatten([k \in 1 .. Len(severities) |->
                        Entry(regions[i], types[j], severities[k])])])]))

RiskScore4d(time_window) ==
    /\ pivot_result.op = NoAnalysis.op
    /\ pivot_result' \in risk_score_4d(pivot_df, time_window)
    /\ UNCHANGED <<cacheVars, analysisVars, etlVars, inputVars, historyVars, adapterVars, severityVars, regionVars, mergeVars, qualityVars, pivot_df, pivot_args>>

TrendAnalysis4d(time_window) ==
    /\ pivot_result.op = NoAnalysis.op
    /\ pivot_result' = trend_analysis_4d(pivot_df, time_window)
    /\ UNCHANGED <<cacheVars, analysisVars, etlVars, inputVars, historyVars, adapterVars, severityVars, regionVars, mergeVars, qualityVars, pivot_df, pivot_args>>

\* Where and what an event is: an earthquake warning and an earthquake
\* advisory (typed in another case) in Asia-Pacific, a flood of a severity
\* outside the three alert levels at (0, 0).
EventWarning == [lat |-> 35, lng |-> 139, type |-> "earthquake", severity |-> "WARNING"]
EventAdvisory == [lat |-> 35, lng |-> 139, type |-> "Earthquake", severity |-> "ADVISORY"]
EventOther == [lat |-> 0, lng |-> 0, type |-> "flood", severity |-> "low"]

\* Event times in half-days: the mornings of days 0, 1 and 2 and the
\* afternoon of day 2.
PivotTimestamps == {0, 2, 4, 5}

\* The warning and the flood at each of the times, the advisory on the
\* morning of day 2.
PivotEvents ==
    { [timestamp |-> t, lat |-> e.lat, lng |-> e.lng, type |-> e.type,
       severity |-> e.severity] :
      t \in PivotTimestamps, e \in {EventWarning, EventOther} }
    \cup { [timestamp |-> 4, lat |-> EventAdvisory.lat, lng |-> EventAdvisory.lng,
            type |-> EventAdvisory.type, severity |-> EventAdvisory.severity] }

PivotRowSeqs == UNION {[1 .. n -> PivotEvents] : n \in 1 .. MaxPivotRows}

\* time_window arguments: a negative one, zero, and whole days.
TimeWindows == -1 .. MaxWindow

\* An optional argument: left out (None), or given with a value.
Omitted == [given |-> FALSE, value |-> <<>>]
Given(value) == [given |-> TRUE, value |-> value]

\* `if argument:` -- the argument is neither None nor an empty list.
Truthy(argument) == argument.given /\ argument.value # <<>>

\* Series.isin(values)
isin(value, values) == \E i \in 1 .. Len(values) : values[i] = value

\* [t.upper() for t in values]
UpperAll(values) == [i \in 1 .. Len(values) |-> Upper(values[i])]

\* Mutant: the region filter is skipped.
filter_regions_skipped(d, regions) == d

\* The four filters of multi_dimensional_query, each applied to what the
\* previous one left.
filter_time_range(d, time_range) ==
    IF Truthy(time_range)
    THEN SelectSeq(d, LAMBDA r : /\ r.timestamp >= time_range.value[1]
                                 /\ r.timestamp <= time_range.value[2])
    ELSE d

filter_regions(d, regions) ==
    IF Truthy(regions)
    THEN SelectSeq(d, LAMBDA r : isin(r.region, regions.value))
    ELSE d

filter_types(d, types) ==
    IF Truthy(types)
    THEN SelectSeq(d, LAMBDA r : isin(r.type_category, UpperAll(types.value)))
    ELSE d

filter_severities(d, severities) ==
    IF Truthy(severities)
    THEN SelectSeq(d, LAMBDA r : isin(r.severity, UpperAll(severities.value)))
    ELSE d

multi_dimensional_query(d, time_range, regions, types, severities) ==
    filter_severities(
        filter_types(
            filter_regions(
                filter_time_range(d, time_range), regions), types), severities)

MultiDimensionalQuery(time_range, regions, types, severities) ==
    /\ pivot_result.op = NoAnalysis.op
    /\ pivot_args' = [op |-> "multi_dimensional_query", time_range |-> time_range,
                      regions |-> regions, types |-> types, severities |-> severities]
    /\ pivot_result' = Returned("multi_dimensional_query", 0,
                           multi_dimensional_query(pivot_df, time_range, regions,
                                                   types, severities))
    /\ UNCHANGED <<cacheVars, analysisVars, etlVars, inputVars, historyVars, adapterVars, severityVars, regionVars, mergeVars, qualityVars, pivot_df>>

\* Number of events in the dataset a query is run on.
MaxQueryRows == 2

QueryRowSeqs == UNION {[1 .. n -> PivotEvents] : n \in 1 .. MaxQueryRows}

\* Query arguments: each left out or given; regions also as an empty list;
\* types and severities in a case other than the stored one.
QueryTimeRanges == {Omitted, Given(<<2, 4>>)}
QueryRegions == {Omitted, Given(<<>>), Given(<<"Asia-Pacific">>)}
QueryTypes == {Omitted, Given(<<"EARTHQUAKE">>), Given(<<"flood", "earthquake">>)}
QuerySeverities == {Omitted, Given(<<"warning">>), Given(<<"low", "Advisory">>)}

\* self.df.columns of the analyzer, as far as the model keeps them: the
\* columns of the events, then the derived ones.
PivotColumns ==
    << "timestamp", "lat", "lng", "type", "severity",
       "date_only", "region", "type_category", "severity_level" >>

\* The table pd.pivot_table(values=..., index=[time_dim, geo_dim],
\* columns=[type_dim, severity_dim], aggfunc='count', fill_value=0) builds:
\* one cell for every observed index key and every observed column key,
\* holding the number of records of that combination (0 where there is none).
pivot_table(d, values_col, time_dim, geo_dim, type_dim, severity_dim) ==
    LET index == {<<d[i][time_dim], d[i][geo_dim]>> : i \in 1 .. Len(d)}
        columns == {<<d[i][type_dim], d[i][severity_dim]>> : i \in 1 .. Len(d)}
    IN  {[time |-> ix[1], geo |-> ix[2], type |-> cx[1], severity |-> cx[2],
          value |-> Cardinality({i \in 1 .. Len(d) :
                                    /\ <<d[i][time_dim], d[i][geo_dim]>> = ix
                                    /\ <<d[i][type_dim], d[i][severity_dim]>> = cx})] :
         ix \in index, cx \in columns}

\* create_4d_pivot(...) with aggfunc='count': a values_col that is not a
\* column is replaced by the first column; a dimension that is not a column
\* makes pd.pivot_table raise KeyError, which is caught and answered with an
\* empty pd.DataFrame().
create_4d_pivot(d, time_dim, geo_dim, type_dim, severity_dim, values_col) ==
    LET values == IF isin(values_col, PivotColumns) THEN values_col ELSE PivotColumns[1]
    IN  IF \A dim \in {time_dim, geo_dim, type_dim, severity_dim} : isin(dim, PivotColumns)
        THEN [op |-> "create_4d_pivot", outcome |-> "returned", time_window |-> 0,
              rows |-> pivot_table(d, values, time_dim, geo_dim, type_dim, severity_dim)]
        ELSE [op |-> "create_4d_pivot", outcome |-> "returned", time_window |-> 0,
              rows |-> {}]

Create4dPivot(time_dim, geo_dim, type_dim, severity_dim, values_col) ==
    /\ pivot_result.op = NoAnalysis.op
    /\ pivot_args' = [op |-> "create_4d_pivot", time_dim |-> time_dim, geo_dim |-> geo_dim,
                      type_dim |-> type_dim, severity_dim |-> severity_dim,
                      values_col |-> values_col]
    /\ pivot_result' = create_4d_pivot(pivot_df, time_dim, geo_dim, type_dim,
                                       severity_dim, values_col)
    /\ UNCHANGED <<cacheVars, analysisVars, etlVars, inputVars, historyVars, adapterVars, severityVars, regionVars, mergeVars, qualityVars, pivot_df>>

\* Dimension arguments: a column of the enriched data, or a name that is not.
TimeDims == {"date_only", "no_such_column"}
GeoDims == {"region", "no_such_column"}
TypeDims == {"type_category", "no_such_column"}
SeverityDims == {"severity", "severity_level", "no_such_column"}
ValuesCols == {"lat", "id"}

PivotIdle ==
    /\ pivot_df = <<>>
    /\ pivot_result = NoAnalysis
    /\ pivot_args = NoArgs

(***************************************************************************)
(* unified_model.py: the source adapters                                   *)
(*                                                                         *)
(* A payload value is [kind, value]: a number, a list, a date string that  *)
(* parses ("iso") or does not ("garbage"), a text, an absent key or a null.*)
(* The records keep the canonical columns except title and description.    *)
(***************************************************************************)

\* Number of items in the list handed to an adapter.
MaxItems == 3

Payload(kind, value) == [kind |-> kind, value |-> value]

\* float(d.get(key, 0)): the number, 0 for an absent key; a text or a null
\* raises.
float_of(v) ==
    CASE v.kind = "number" -> [ok |-> TRUE, value |-> v.value]
      [] v.kind = "absent" -> [ok |-> TRUE, value |-> 0]
      [] OTHER -> [ok |-> FALSE, value |-> 0]

\* d.get('coordinates', default), then
\* float(coords[1]) if len(coords) > 1 else 0.0 and
\* float(coords[0]) if len(coords) > 0 else 0.0; len(None) raises.
coordinates_of(v) ==
    CASE v.kind = "list" ->
             [ok |-> TRUE,
              latitude |-> IF Len(v.value) > 1 THEN v.value[2] ELSE 0,
              longitude |-> IF Len(v.value) > 0 THEN v.value[1] ELSE 0]
      [] v.kind = "absent" -> [ok |-> TRUE, latitude |-> 0, longitude |-> 0]
      [] OTHER -> [ok |-> FALSE, latitude |-> 0, longitude |-> 0]

\* pd.to_datetime(ms, unit='ms', utc=True), in seconds; 0 for an absent key.
to_datetime_ms(v) ==
    CASE v.kind = "number" -> [ok |-> TRUE, value |-> v.value \div 1000]
      [] v.kind = "absent" -> [ok |-> TRUE, value |-> 0]
      [] OTHER -> [ok |-> FALSE, value |-> 0]

\* The instant datetime.now() stands for, in seconds.
Now == 9

\* pd.to_datetime(d.get(key, datetime.now().isoformat()), utc=True), in
\* seconds; a string that is no date raises.
to_datetime_iso(v) ==
    CASE v.kind = "iso" -> [ok |-> TRUE, value |-> v.value]
      [] v.kind = "absent" -> [ok |-> TRUE, value |-> Now]
      [] OTHER -> [ok |-> FALSE, value |-> 0]

\* str.lower() on the category titles of the payloads.
Lower(s) ==
    CASE s = "Wildfires" -> "wildfires"
      [] s = "Floods" -> "floods"
      [] OTHER -> s

\* One pass of the loop body of transform_usgs_to_unified: the record that
\* is appended, or nothing when the try block raises.
transform_usgs_item(item) ==
    LET magnitude == float_of(item.mag)
        coords == coordinates_of(item.coordinates)
        timestamp == to_datetime_ms(item.time)
    IN  IF magnitude.ok /\ coords.ok /\ timestamp.ok
        THEN << [id |-> item.id, type |-> "earthquake", source |-> "USGS",
                 timestamp |-> timestamp.value,
                 latitude |-> coords.latitude, longitude |-> coords.longitude,
                 magnitude |-> magnitude.value,
                 severity |-> calculate_severity("earthquake", magnitude.value),
                 populationExposed |-> 0, confidence |-> 95] >>
        ELSE <<>>

\* type_mapping.get(event_type, event_type) of transform_nasa_to_unified
nasa_type(event_type) ==
    CASE event_type = "wildfires" -> "wildfire"
      [] event_type = "severe storms" -> "storm"
      [] event_type = "floods" -> "flood"
      [] event_type = "volcanoes" -> "volcano"
      [] OTHER -> event_type

\* One pass of the loop body of transform_nasa_to_unified: an event without
\* geometry is passed over; the latest geometry gives date and position;
\* the magnitude is the estimate 500.0.
transform_nasa_item(event) ==
    IF event.geometry = <<>> THEN <<>>
    ELSE
    LET hazard_type == IF event.categories = <<>> THEN "unknown"
                       ELSE nasa_type(Lower(event.categories[1]))
        latest_geo == event.geometry[Len(event.geometry)]
        coords == coordinates_of(latest_geo.coordinates)
        timestamp == to_datetime_iso(latest_geo.date)
    IN  IF coords.ok /\ timestamp.ok
        THEN << [id |-> event.id, type |-> hazard_type, source |-> "NASA",
                 timestamp |-> timestamp.value,
                 latitude |-> coords.latitude, longitude |-> coords.longitude,
                 magnitude |-> 5000,
                 severity |-> calculate_severity(hazard_type, 5000),
                 populationExposed |-> 0, confidence |-> 85] >>
        ELSE <<>>

\* event_type_mapping.get(event_type, 'unknown') of transform_gdacs_to_unified
gdacs_type(event_type) ==
    CASE event_type = "EQ" -> "earthquake"
      [] event_type = "FL" -> "flood"
      [] event_type = "TC" -> "cyclone"
      [] event_type = "VO" -> "volcano"
      [] event_type = "WF" -> "wildfire"
      [] OTHER -> "unknown"

\* alert_levels.get(alert_level, 0.75), in hundredths
gdacs_confidence(alert_level) ==
    CASE alert_level = "Red" -> 95
      [] alert_level = "Orange" -> 85
      [] alert_level = "Green" -> 70
      [] OTHER -> 75

\* One pass of the loop body of transform_gdacs_to_unified.
transform_gdacs_item(item) ==
    LET hazard_type == gdacs_type(item.eventtype)
        magnitude == float_of(item.magnitude)
        pop_exposed == float_of(item.population)
        latitude == float_of(item.latitude)
        longitude == float_of(item.longitude)
        timestamp == to_datetime_iso(item.fromdate)
    IN  IF magnitude.ok /\ pop_exposed.ok /\ latitude.ok /\ longitude.ok /\ timestamp.ok
        THEN << [id |-> item.id, type |-> hazard_type, source |-> "GDACS",
                 timestamp |-> timestamp.value,
                 latitude |-> latitude.value, longitude |-> longitude.value,
                 magnitude |-> magnitude.value,
                 severity |-> calculate_severity(hazard_type, magnitude.value),
                 populationExposed |-> pop_exposed.value,
                 confidence |-> gdacs_confidence(item.alertlevel)] >>
        ELSE <<>>

\* Mutant: the first item that fails ends the loop.
RECURSIVE transformed_until_failure(_)
transformed_until_failure(passes) ==
    IF passes = <<>> \/ Head(passes) = <<>> THEN <<>>
    ELSE Head(passes) \o transformed_until_failure(Tail(passes))

\* The transformed list after the loop: what each pass appended, in order.
transformed(passes) == Flatten(passes)

\* if not transformed: return create_empty_dataframe(); otherwise
\* _apply_schema(pd.DataFrame(transformed)), which has the SCHEMA columns.
to_canonical(records) ==
    IF records = <<>> THEN create_empty_dataframe
    ELSE [returned |-> TRUE, rows |-> records, columns |-> SchemaColumns]

transform_usgs_to_unified(usgs_data) ==
    to_canonical(transformed([i \in 1 .. Len(usgs_data) |-> transform_usgs_item(usgs_data[i])]))

transform_nasa_to_unified(nasa_data) ==
    to_canonical(transformed([i \in 1 .. Len(nasa_data) |-> transform_nasa_item(nasa_data[i])]))

transform_gdacs_to_unified(gdacs_data) ==
    to_canonical(transformed([i \in 1 .. Len(gdacs_data) |-> transform_gdacs_item(gdacs_data[i])]))

TransformUsgs ==
    /\ ~adapted.returned
    /\ raw_data.adapter = "USGS"
    /\ adapted' = transform_usgs_to_unified(raw_data.items)
    /\ UNCHANGED <<cacheVars, analysisVars, etlVars, inputVars, historyVars, raw_data, severityVars, regionVars, mergeVars, qualityVars, pivotVars>>

TransformNasa ==
    /\ ~adapted.returned
    /\ raw_data.adapter = "NASA"
    /\ adapted' = transform_nasa_to_unified(raw_data.items)
    /\ UNCHANGED <<cacheVars, analysisVars, etlVars, inputVars, historyVars, raw_data, severityVars, regionVars, mergeVars, qualityVars, pivotVars>>

TransformGdacs ==
    /\ ~adapted.returned
    /\ raw_data.adapter = "GDACS"
    /\ adapted' = transform_gdacs_to_unified(raw_data.items)
    /\ UNCHANGED <<cacheVars, analysisVars, etlVars, inputVars, historyVars, raw_data, severityVars, regionVars, mergeVars, qualityVars, pivotVars>>

\* USGS features: a complete one, one that relies on the defaults, one with a
\* text magnitude, one with null coordinates.
UsgsItems ==
    { [id |-> i, mag |-> x.mag, coordinates |-> x.coordinates, time |-> x.time] :
      i \in {"u1", "u2"},
      x \in { [mag |-> Payload("number", 70), coordinates |-> Payload("list", <<-118, 34, 10>>), time |-> Payload("number", 5000)],
              [mag |-> Payload("absent", 0), coordinates |-> Payload("list", <<-118>>), time |-> Payload("absent", 0)],
              [mag |-> Payload("text", 0), coordinates |-> Payload("list", <<-118, 34, 10>>), time |-> Payload("number", 5000)],
              [mag |-> Payload("number", 70), coordinates |-> Payload("null", 0), time |-> Payload("number", 5000)] } }

\* NASA events: a wildfire with two geometries, an event without categories,
\* one without geometry, one whose latest date is no date.
NasaItems ==
    { [id |-> i, categories |-> x.categories, geometry |-> x.geometry] :
      i \in {"n1", "n2"},
      x \in { [categories |-> <<"Wildfires">>,
               geometry |-> << [date |-> Payload("iso", 3), coordinates |-> Payload("list", <<-120, 36>>)],
                               [date |-> Payload("iso", 4), coordinates |-> Payload("list", <<-118, 34>>)] >>],
              [categories |-> <<>>,
               geometry |-> << [date |-> Payload("absent", 0), coordinates |-> Payload("absent", 0)] >>],
              [categories |-> <<"Floods">>, geometry |-> <<>>],
              [categories |-> <<"Floods">>,
               geometry |-> << [date |-> Payload("garbage", 0), coordinates |-> Payload("list", <<-118, 34>>)] >>] } }

\* GDACS events: a complete earthquake, one of an unknown type that relies on
\* the defaults, one with a text magnitude, one whose date is no date.
GdacsItems ==
    { [id |-> i, eventtype |-> x.eventtype, alertlevel |-> x.alertlevel,
       fromdate |-> x.fromdate, latitude |-> x.latitude, longitude |-> x.longitude,
       magnitude |-> x.magnitude, population |-> x.population] :
      i \in {"g1", "g2"},
      x \in { [eventtype |-> "EQ", alertlevel |-> "Orange", fromdate |-> Payload("iso", 5),
               latitude |-> Payload("number", 34), longitude |-> Payload("number", -118),
               magnitude |-> Payload("number", 65), population |-> Payload("number", 1000000)],
              [eventtype |-> "DR", alertlevel |-> "Blue", fromdate |-> Payload("absent", 0),
               latitude |-> Payload("absent", 0), longitude |-> Payload("absent", 0),
               magnitude |-> Payload("absent", 0), population |-> Payload("absent", 0)],
              [eventtype |-> "EQ", alertlevel |-> "Red", fromdate |-> Payload("iso", 5),
               latitude |-> Payload("number", 34), longitude |-> Payload("number", -118),
               magnitude |-> Payload("text", 0), population |-> Payload("number", 0)],
              [eventtype |-> "FL", alertlevel |-> "Green", fromdate |-> Payload("garbage", 0),
               latitude |-> Payload("number", 34), longitude |-> Payload("number", -118),
               magnitude |-> Payload("number", 0), population |-> Payload("number", 0)] } }

ItemSeqs(items) == UNION {[1 .. n -> items] : n \in 0 .. MaxItems}

RawData ==
    {[adapter |-> "USGS", items |-> s] : s \in ItemSeqs(UsgsItems)}
    \cup {[adapter |-> "NASA", items |-> s] : s \in ItemSeqs(NasaItems)}
    \cup {[adapter |-> "GDACS", items |-> s] : s \in ItemSeqs(GdacsItems)}

AdapterIdle ==
    /\ raw_data = [adapter |-> "none", items |-> <<>>]
    /\ adapted = NoResult

(***************************************************************************)
(* quality_monitor.py: the history of one monitor                          *)
(***************************************************************************)

\* Number of assess_quality calls made on one monitor.
MaxCalls == 4

\* get_quality_trend was not the latest call.
NoTrend == [called |-> FALSE]

\* Datasets of the successive calls: one without columns, one with the
\* canonical columns and no rows, a clean record, a dirty record.
HistoryDatasets ==
    { [columns |-> {}, rows |-> <<>>],
      [columns |-> SeqToSet(SchemaColumns), rows |-> <<>>] }
    \cup { [columns |-> SeqToSet(SchemaColumns), rows |-> <<r>>] :
           r \in {x \in QualityRecords :
                     /\ x.id = "a"
                     /\ \/ x.severity = "critical" /\ x.latitude = 35
                        \/ x.latitude = 100} }

\* One assess_quality(d, source) call among several on the same monitor: the
\* empty dataset returns the empty report at once; any other dataset's report
\* is appended to quality_history before it is returned.
AssessQualityCall(d, source) ==
    /\ Len(returned_reports) < MaxCalls
    /\ df' = d
    /\ \E r \in (IF IsEmpty(d) THEN {_empty_quality_report(source)}
                 ELSE QualityReports(d, source)) :
           /\ report' = r
           /\ quality_history' = IF IsEmpty(d) THEN quality_history
                                 ELSE Append(quality_history, r)
           /\ returned_reports' = Append(returned_reports, r)
    /\ trend' = NoTrend
    /\ UNCHANGED <<cacheVars, analysisVars, etlVars, inputVars, adapterVars, severityVars, regionVars, mergeVars, reports, comparison, pivotVars>>

\* self.quality_history[-limit:] for limit >= 0: -0 is 0, so the slice of
\* limit 0 starts at the first entry; a limit beyond the length does too.
slice_last(history, limit) ==
    LET n == Len(history)
        start == IF limit = 0 \/ limit >= n THEN 1 ELSE n - limit + 1
    IN  SubSeq(history, start, n)

\* get_quality_trend(limit)
get_quality_trend(limit) ==
    IF quality_history # <<>> THEN slice_last(quality_history, limit) ELSE <<>>

GetQualityTrend(limit) ==
    /\ trend' = [called |-> TRUE, limit |-> limit, result |-> get_quality_trend(limit)]
    /\ UNCHANGED <<cacheVars, analysisVars, etlVars, inputVars, adapterVars, severityVars, regionVars, mergeVars, qualityVars, pivotVars,
                   returned_reports>>

\* The limits asked for: none, fewer than, as many as and more than the
\* history can hold.
TrendLimits == 0 .. (MaxCalls + 1)

HistoryIdle ==
    /\ returned_reports = <<>>
    /\ trend = NoTrend

(***************************************************************************)
(* pivot_table_analyzer.py: FourDimensionalPivotTable.__init__             *)
(*                                                                         *)
(* A dataset object is [object, columns, rows]: object is its identity,    *)
(* columns the set of its column names; a row carries a value for every    *)
(* column name used here, and only the values of its columns are read.     *)
(* The datasets all have the timestamp, type and severity columns.         *)
(***************************************************************************)

\* Number of records in the dataset handed to the constructor.
MaxInputRows == 2

\* Mutant: self.df = df, the caller's own object.
copy_alias(d) == d

\* df.copy(): the same columns and rows in a new object.
copy(d) == [d EXCEPT !.object = d.object + 1]

\* The columns _preprocess_data assigns on self.df.
enriched_columns ==
    {"timestamp", "year", "quarter", "month", "week", "day", "hour", "date_only",
     "year_month", "lat", "lng", "region", "continent", "lat_bin", "lng_bin",
     "geo_grid", "type_category", "severity_level"}

\* The lat and lng columns of self.df after step 2 of _preprocess_data: taken
\* from the coordinates column ([lng, lat]) when there is one; otherwise the
\* lat and lng columns, each set to 0 when the dataset has none.
lat_lng(d, r) ==
    IF "coordinates" \in d.columns
    THEN [lat |-> IF Len(r.coordinates) >= 2 THEN r.coordinates[2] ELSE 0,
          lng |-> IF Len(r.coordinates) >= 2 THEN r.coordinates[1] ELSE 0]
    ELSE [lat |-> IF "lat" \in d.columns THEN r.lat ELSE 0,
          lng |-> IF "lng" \in d.columns THEN r.lng ELSE 0]

\* self.df after __init__: the enrichment of the object copy() returned.
FourDimensionalPivotTable(d) ==
    LET self_df == copy(d)
    IN  [object |-> self_df.object,
         columns |-> self_df.columns \cup enriched_columns,
         rows |-> _preprocess_data(
                      [i \in 1 .. Len(self_df.rows) |->
                          [timestamp |-> self_df.rows[i].timestamp,
                           lat |-> lat_lng(self_df, self_df.rows[i]).lat,
                           lng |-> lat_lng(self_df, self_df.rows[i]).lng,
                           type |-> self_df.rows[i].type,
                           severity |-> self_df.rows[i].severity]])]

\* What the holder of a dataset object sees after column assignments on an
\* object: the assigned columns when it is the holder's object.
seen_by(holder, written) ==
    IF holder.object = written.object
    THEN [holder EXCEPT !.columns = written.columns]
    ELSE holder

\* analyzer = FourDimensionalPivotTable(input_df)
NewPivotTable ==
    /\ pivot_df = <<>>
    /\ pivot_df' = FourDimensionalPivotTable(input_df).rows
    /\ input_df' = seen_by(input_df, FourDimensionalPivotTable(input_df))
    /\ UNCHANGED <<cacheVars, analysisVars, etlVars, historyVars, adapterVars, severityVars, regionVars, mergeVars, qualityVars,
                   pivot_result, pivot_args>>

\* Canonical records: earthquakes of each severity near Tokyo, of the lowest
\* and the highest near Los Angeles, and an earlier one; and the same events
\* as a dataset with lat/lng columns or a coordinates column would hold them.
InputEvents ==
    { [timestamp |-> e[1], latitude |-> e[2], longitude |-> e[3],
       lat |-> e[2], lng |-> e[3], coordinates |-> <<e[3], e[2]>>,
       type |-> "earthquake", severity |-> e[4]] :
      e \in { <<4, 35, 139, "low">>, <<4, 35, 139, "medium">>, <<4, 35, 139, "high">>,
              <<4, 35, 139, "critical">>, <<4, 34, -118, "low">>,
              <<4, 34, -118, "critical">>, <<0, 35, 139, "critical">> } }

\* The canonical columns, and the two coordinate layouts _preprocess_data
\* looks for.
InputColumnSets ==
    { SeqToSet(SchemaColumns),
      {"timestamp", "lat", "lng", "type", "severity"},
      {"timestamp", "coordinates", "type", "severity"} }

InputDatasets ==
    { [object |-> 1, columns |-> c, rows |-> rs] :
      c \in InputColumnSets,
      rs \in UNION {[1 .. n -> InputEvents] : n \in 1 .. MaxInputRows} }

InputIdle ==
    input_df = [object |-> 1, columns |-> {}, rows |-> <<>>]

(***************************************************************************)
(* etl_processor.py: ETLProcessor                                          *)
(*                                                                         *)
(* Of the result of merge_multi_source_data the model keeps total_records  *)
(* and source_records; the quality reports it also carries are those of    *)
(* assess_quality and compare_sources above.                               *)
(***************************************************************************)

\* Number of items in each payload handed to merge_multi_source_data.
MaxEtlItems == 2

\* No ETLProcessor call has returned.
NoEtlResult == [op |-> "none"]

\* The dataframes list of merge_multi_source_data: the adapter output of
\* each source whose payload is neither None nor empty, in the order USGS,
\* NASA, GDACS.
etl_dataframes(usgs_data, nasa_data, gdacs_data) ==
    (IF Truthy(usgs_data) THEN <<transform_usgs_to_unified(usgs_data.value).rows>> ELSE <<>>)
    \o (IF Truthy(nasa_data) THEN <<transform_nasa_to_unified(nasa_data.value).rows>> ELSE <<>>)
    \o (IF Truthy(gdacs_data) THEN <<transform_gdacs_to_unified(gdacs_data.value).rows>> ELSE <<>>)

\* 'source_records': each count is read from a fixed position of dataframes:
\* 'USGS': len(dataframes[0]) if usgs_data and len(dataframes) > 0 else 0,
\* 'NASA': len(dataframes[1]) if nasa_data and len(dataframes) > 1 else 0,
\* 'GDACS': len(dataframes[2]) if gdacs_data and len(dataframes) > 2 else 0
source_records(usgs_data, nasa_data, gdacs_data, dfs) ==
    [USGS |-> IF Truthy(usgs_data) /\ Len(dfs) > 0 THEN Len(dfs[1]) ELSE 0,
     NASA |-> IF Truthy(nasa_data) /\ Len(dfs) > 1 THEN Len(dfs[2]) ELSE 0,
     GDACS |-> IF Truthy(gdacs_data) /\ Len(dfs) > 2 THEN Len(dfs[3]) ELSE 0]

\* merge_multi_source_data(usgs_data, nasa_data, gdacs_data): the results one
\* call can return.
merge_multi_source_data(usgs_data, nasa_data, gdacs_data) ==
    LET dataframes_ == etl_dataframes(usgs_data, nasa_data, gdacs_data)
    IN  { [op |-> "merge_multi_source_data",
           unified_data |-> unified_df.rows,
           total_records |-> Len(unified_df.rows),
           source_records |-> source_records(usgs_data, nasa_data, gdacs_data, dataframes_)] :
          unified_df \in merge_sources(dataframes_) }

MergeMultiSourceData ==
    /\ etl_result = NoEtlResult
    /\ etl_args.op = "merge_multi_source_data"
    /\ etl_result' \in merge_multi_source_data(etl_args.usgs_data, etl_args.nasa_data,
                                               etl_args.gdacs_data)
    /\ UNCHANGED <<cacheVars, analysisVars, etl_args, inputVars, historyVars, adapterVars, severityVars, regionVars,
                   mergeVars, qualityVars, pivotVars>>

\* A payload argument: None, or a list of up to MaxEtlItems of the items.
Payloads(items) ==
    {Omitted} \cup {Given(s) : s \in UNION {[1 .. n -> items] : n \in 0 .. MaxEtlItems}}

\* Payloads of one complete item and one malformed item per source: a USGS
\* feature and one with a text magnitude, a NASA wildfire and an event without
\* geometry, a GDACS earthquake and one with a text magnitude.
EtlArgs ==
    { [op |-> "merge_multi_source_data", usgs_data |-> u, nasa_data |-> n, gdacs_data |-> g] :
      u \in Payloads({x \in UsgsItems : x.id = "u1" /\ x.coordinates.kind = "list"
                                         /\ x.time.kind = "number"}),
      n \in Payloads({x \in NasaItems : x.id = "n1" /\ x.categories # <<>>
                                         /\ Len(x.geometry) # 1}),
      g \in Payloads({x \in GdacsItems : x.id = "g1" /\ x.eventtype = "EQ"}) }

\* float(round(overall_score * 100, 1)) in tenths of a point, for a score
\* held in 1/10000: where the product lies halfway between two tenths the
\* floating-point product may fall on either side.
overallScore(overall_score) ==
    LET tenths == overall_score \div 10
        rest == overall_score % 10
    IN  IF rest < 5 THEN {tenths}
        ELSE IF rest > 5 THEN {tenths + 1}
        ELSE {tenths, tenths + 1}

\* The dict assess_data_quality makes of a quality report: reading the five
\* dimension scores raises KeyError on a report whose dimensions are empty,
\* and the except branch returns {"error": ...}.
api_quality(quality_report) ==
    IF quality_report.dimensions = <<>>
    THEN {[op |-> "assess_data_quality", error |-> TRUE]}
    ELSE {[op |-> "assess_data_quality", error |-> FALSE, overallScore |-> s,
           totalRecords |-> quality_report.record_count,
           status |-> quality_report.overall_status,
           issues |-> quality_report.issues] :
          s \in overallScore(quality_report.overall_score)}

\* ETLProcessor.assess_data_quality(df, source): the monitor assesses df
\* (appending the report of a non-empty dataset to its history), then the
\* report is converted.
AssessDataQuality ==
    /\ etl_result = NoEtlResult
    /\ etl_args.op = "assess_data_quality"
    /\ \E r \in (IF IsEmpty(df) THEN {_empty_quality_report(etl_args.source)}
                 ELSE QualityReports(df, etl_args.source)) :
           /\ report' = r
           /\ quality_history' = IF IsEmpty(df) THEN quality_history
                                 ELSE Append(quality_history, r)
           /\ returned_reports' = Append(returned_reports, r)
           /\ etl_result' \in api_quality(r)
    /\ UNCHANGED <<cacheVars, analysisVars, etl_args, inputVars, trend, adapterVars, severityVars, regionVars,
                   mergeVars, df, reports, comparison, pivotVars>>

\* Datasets handed to assess_data_quality.
EtlDatasets ==
    [columns : QualityColumnSets,
     rows : UNION {[1 .. n -> QualityRecords] : n \in 0 .. MaxEtlItems}]

EtlIdle ==
    /\ etl_args = [op |-> "none"]
    /\ etl_result = NoEtlResult

(***************************************************************************)
(* main.py: comprehensive_analysis                                         *)
(*                                                                         *)
(* The three executor tasks are handed the same dataset object.  Each task *)
(* starts with its validation, then runs its analyses; the steps of        *)
(* different tasks interleave.  A column assignment is one step.           *)
(***************************************************************************)

\* The fields of HazardData: the columns of a dataset converted from a
\* request with hazards.
HazardColumns ==
    {"id", "type", "title", "coordinates", "timestamp", "magnitude", "severity",
     "source", "populationExposed"}

Tasks == {"statistical", "prediction", "risk"}

\* A task, or the assessment, has not read the dataset.
NotRead == {"(not read)"}

\* len(df) > 0 and the required columns are there.  pd.DataFrame() of a
\* request without hazards has no rows and no columns.
valid_dataframe(columns, required) ==
    columns # {} /\ required \subseteq columns

\* _validate_dataframe of the statistical analyzer (raises), of the
\* prediction engine and of the risk assessor (return False, and the caller
\* raises): the task goes on or ends with the exception.
Validate(task, required) ==
    /\ task_pc[task] = "start"
    /\ observed' = [observed EXCEPT ![task] = df_columns]
    /\ task_pc' = [task_pc EXCEPT ![task] =
                       IF valid_dataframe(df_columns, required) THEN "validated"
                       ELSE "raised"]
    /\ UNCHANGED <<cacheVars, converted_columns, df_columns, etlVars, inputVars, historyVars,
                   adapterVars, severityVars, regionVars, mergeVars, qualityVars, pivotVars>>

\* df['date'] = pd.to_datetime(df['timestamp']).dt.date on the task's df
\* argument, which is the shared object.
assign_date(columns) == columns \cup {"date"}

\* StatisticalAnalyzer.run_comprehensive_analysis after validation: the
\* cache key is computed from df and a cached result is returned at once.
CacheLookup(cached) ==
    /\ task_pc["statistical"] = "validated"
    /\ observed' = [observed EXCEPT !["statistical"] = df_columns]
    /\ task_pc' = [task_pc EXCEPT !["statistical"] = IF cached THEN "done" ELSE "analysing"]
    /\ UNCHANGED <<cacheVars, converted_columns, df_columns, etlVars, inputVars, historyVars,
                   adapterVars, severityVars, regionVars, mergeVars, qualityVars, pivotVars>>

\* The analyses of a result that was not cached: _time_series_analysis
\* assigns the date column.
StatisticalAnalyses ==
    /\ task_pc["statistical"] = "analysing"
    /\ df_columns' = assign_date(df_columns)
    /\ observed' = [observed EXCEPT !["statistical"] = df_columns]
    /\ task_pc' = [task_pc EXCEPT !["statistical"] = "done"]
    /\ UNCHANGED <<cacheVars, converted_columns, etlVars, inputVars, historyVars,
                   adapterVars, severityVars, regionVars, mergeVars, qualityVars, pivotVars>>

\* PredictionEngine.generate_predictions after validation: every model
\* filters df and works on the copy of the selection.
PredictionModels ==
    /\ task_pc["prediction"] = "validated"
    /\ observed' = [observed EXCEPT !["prediction"] = df_columns]
    /\ task_pc' = [task_pc EXCEPT !["prediction"] = "done"]
    /\ UNCHANGED <<cacheVars, converted_columns, df_columns, etlVars, inputVars, historyVars,
                   adapterVars, severityVars, regionVars, mergeVars, qualityVars, pivotVars>>

\* RiskAssessor.calculate_comprehensive_risk after validation: the overall,
\* type and geographic risks read df (the geographic one on a copy).
RiskScores ==
    /\ task_pc["risk"] = "validated"
    /\ observed' = [observed EXCEPT !["risk"] = df_columns]
    /\ task_pc' = [task_pc EXCEPT !["risk"] = "scored"]
    /\ UNCHANGED <<cacheVars, converted_columns, df_columns, etlVars, inputVars, historyVars,
                   adapterVars, severityVars, regionVars, mergeVars, qualityVars, pivotVars>>

\* _analyze_temporal_risks assigns the date column when there is a timestamp
\* column; the population impact and the recommendations read df.
RiskTemporal ==
    /\ task_pc["risk"] = "scored"
    /\ df_columns' = IF "timestamp" \in df_columns THEN assign_date(df_columns)
                     ELSE df_columns
    /\ observed' = [observed EXCEPT !["risk"] = df_columns]
    /\ task_pc' = [task_pc EXCEPT !["risk"] = "done"]
    /\ UNCHANGED <<cacheVars, converted_columns, etlVars, inputVars, historyVars,
                   adapterVars, severityVars, regionVars, mergeVars, qualityVars, pivotVars>>

\* After asyncio.gather has returned the three results:
\* etl_processor.assess_data_quality(df) on the same object.
AssessAfterGather ==
    /\ \A task \in Tasks : task_pc[task] = "done"
    /\ observed["quality"] = NotRead
    /\ observed' = [observed EXCEPT !["quality"] = df_columns]
    /\ UNCHANGED <<cacheVars, converted_columns, df_columns, task_pc, etlVars, inputVars, historyVars,
                   adapterVars, severityVars, regionVars, mergeVars, qualityVars, pivotVars>>

AnalysisIdle ==
    /\ converted_columns = {}
    /\ df_columns = {}
    /\ task_pc = [task \in Tasks |-> "done"]
    /\ observed = [reader \in Tasks \cup {"quality"} |-> {}]

(***************************************************************************)
(* statistical_algorithms.py: the result cache of StatisticalAnalyzer      *)
(*                                                                         *)
(* The decorator cache_response of main.py keeps GLOBAL_CACHE by the same  *)
(* test, (datetime.now() - timestamp).seconds < ttl.  Times are seconds.   *)
(***************************************************************************)

\* Number of times the clock advances.
MaxTicks == 3

\* self._cache_ttl = 300
_cache_ttl == 300

\* The cache evicts its oldest entry when it holds more than 100.
CacheMaxSize == 100

SecondsPerDay == 86400

\* The key has no entry.
NoEntry == -1

\* No lookup has been made.
NoLookup == [key |-> "none", found |-> FALSE, hit |-> FALSE, elapsed |-> 0]

CacheKeys == {"k1", "k2"}

\* timedelta.seconds of a non-negative difference: the seconds within the
\* day, the days being held in timedelta.days.
timedelta_seconds(elapsed) == elapsed % SecondsPerDay

\* The clock advances by two and a half minutes, or by a day.
Tick(delta) ==
    /\ clock.ticks < MaxTicks
    /\ clock' = [now |-> clock.now + delta, ticks |-> clock.ticks + 1]
    /\ UNCHANGED <<cache, lookup, analysisVars, etlVars, inputVars, historyVars, adapterVars,
                   severityVars, regionVars, mergeVars, qualityVars, pivotVars>>

\* _save_to_cache(key, value): the entry is stamped with the time of the
\* save; beyond CacheMaxSize entries the oldest is deleted.
_save_to_cache(entries, key, now) ==
    LET saved == [entries EXCEPT ![key] = now]
        held == {k \in DOMAIN saved : saved[k] # NoEntry}
        oldest_key == CHOOSE k \in held : \A other \in held : saved[k] <= saved[other]
    IN  IF Cardinality(held) > CacheMaxSize
        THEN [saved EXCEPT ![oldest_key] = NoEntry]
        ELSE saved

SaveToCache(key) ==
    /\ cache' = _save_to_cache(cache, key, clock.now)
    /\ UNCHANGED <<clock, lookup, analysisVars, etlVars, inputVars, historyVars, adapterVars,
                   severityVars, regionVars, mergeVars, qualityVars, pivotVars>>

\* _get_from_cache(key): an entry whose timedelta.seconds is below the TTL
\* is returned; any other entry found is deleted and the lookup misses.
GetFromCache(key) ==
    LET found == cache[key] # NoEntry
        elapsed == clock.now - cache[key]
        hit == found /\ timedelta_seconds(elapsed) < _cache_ttl
    IN  /\ lookup' = [key |-> key, found |-> found, hit |-> hit,
                      elapsed |-> IF found THEN elapsed ELSE 0]
        /\ cache' = IF found /\ ~hit THEN [cache EXCEPT ![key] = NoEntry] ELSE cache
        /\ UNCHANGED <<clock, analysisVars, etlVars, inputVars, historyVars, adapterVars,
                       severityVars, regionVars, mergeVars, qualityVars, pivotVars>>

TickSizes == {150, SecondsPerDay}

CacheIdle ==
    /\ clock = [now |-> 0, ticks |-> 0]
    /\ cache = [k \in CacheKeys |-> NoEntry]
    /\ lookup = NoLookup

(***************************************************************************)
(* Claims on severity classification                                       *)
(***************************************************************************)

SeverityRank(s) ==
    CASE s = "low" -> 0 [] s = "medium" -> 1 [] s = "high" -> 2 [] s = "critical" -> 3

\* C4 (as claimed): for a hazard type without an entry in the threshold table,
\* every magnitude >= 0 is classified "low".
C4_UnknownTypeAlwaysLow ==
    \A i \in 1 .. Len(severity_calls) :
        LET c == severity_calls[i] IN
        (c.hazard_type \notin KnownThresholdTypes /\ c.magnitude >= 0)
            => c.severity = "low"

\* C5: for a fixed hazard type the classified level never decreases when the
\* magnitude increases, and the level is the highest threshold the magnitude
\* reaches (critical, then high, then medium, else low).
C5_SeverityMonotonic ==
    /\ \A i, j \in 1 .. Len(severity_calls) :
           LET a == severity_calls[i]  b == severity_calls[j] IN
           (a.hazard_type = b.hazard_type /\ a.magnitude <= b.magnitude)
               => SeverityRank(a.severity) <= SeverityRank(b.severity)
    /\ \A i \in 1 .. Len(severity_calls) :
           LET c == severity_calls[i]
               t == ThresholdsFor(c.hazard_type)
               reached == {l \in {"medium", "high", "critical"} : c.magnitude >= t[l]}
           IN  /\ c.severity \in {"low", "medium", "high", "critical"}
               /\ \A l \in reached : SeverityRank(l) <= SeverityRank(c.severity)
               /\ c.severity # "low" => c.severity \in reached

\* C5 witness: two logged calls of one type, the larger magnitude classified
\* strictly higher.
C5_Witness ==
    \E i, j \in 1 .. Len(severity_calls) :
        /\ severity_calls[i].hazard_type = severity_calls[j].hazard_type
        /\ severity_calls[i].magnitude < severity_calls[j].magnitude
        /\ severity_calls[i].severity = "medium"
        /\ severity_calls[j].severity = "critical"

(***************************************************************************)
(* Claims on region classification                                         *)
(***************************************************************************)

RegionLabels ==
    {"Asia-Pacific", "North America", "Europe", "South America", "Africa", "Other"}

\* The boxes in their priority order, as the claim lists them.
RegionBoxes ==
    << [label |-> "Asia-Pacific",  latLo |-> -10, latHi |-> 60, lngLo |-> 60,   lngHi |-> 180],
       [label |-> "North America", latLo |-> 15,  latHi |-> 75, lngLo |-> -170, lngHi |-> -50],
       [label |-> "Europe",        latLo |-> 35,  latHi |-> 70, lngLo |-> -10,  lngHi |-> 60],
       [label |-> "South America", latLo |-> -60, latHi |-> 15, lngLo |-> -85,  lngHi |-> -30],
       [label |-> "Africa",        latLo |-> -35, latHi |-> 40, lngLo |-> -20,  lngHi |-> 55] >>

BoxesContaining(r) ==
    {i \in 1 .. Len(RegionBoxes) :
        LET b == RegionBoxes[i] IN
        /\ b.latLo <= r.lat /\ r.lat <= b.latHi
        /\ b.lngLo <= r.lng /\ r.lng <= b.lngHi}

\* C6: every point of [-90,90] x [-180,180] gets exactly one of the six labels:
\* the label of the first box (in priority order) containing it, "Other" when
\* no box contains it; never a null.
C6_RegionTotalFirstMatch ==
    region # NotCalled =>
        /\ region \in RegionLabels
        /\ LET hits == BoxesContaining(row) IN
           IF hits = {} THEN region = "Other"
           ELSE \E i \in hits :
                    /\ \A k \in hits : i <= k
                    /\ region = RegionBoxes[i].label

\* C6 witness: a classified point lying in two boxes (Europe and Africa).
C6_Witness ==
    /\ region = "Europe"
    /\ Cardinality(BoxesContaining(row)) = 2


(***************************************************************************)
(* Claims on merge_sources                                                 *)
(***************************************************************************)

SameKey(a, b) == a.id = b.id /\ a.timestamp = b.timestamp

\* C2: the result of merge_sources holds no two records with the same
\* (id, timestamp), and has at most as many records as the inputs together;
\* merging D with itself gives at most |D| records.
C2_MergeNoDuplicateKeys ==
    merged.returned =>
        /\ \A i, j \in 1 .. Len(merged.rows) :
               SameKey(merged.rows[i], merged.rows[j]) => i = j
        /\ Len(merged.rows) <= SumLen(dataframes)
        /\ (Len(dataframes) = 2 /\ dataframes[1] = dataframes[2])
               => Len(merged.rows) <= Len(dataframes[1])

\* C2 witness: a dataset of two records with different keys merged with itself.
C2_Witness ==
    /\ merged.returned
    /\ Len(dataframes) = 2
    /\ dataframes[1] = dataframes[2]
    /\ Len(dataframes[1]) >= 2
    /\ Len(merged.rows) = 2

\* C3: every distinct (id, timestamp) of the concatenated inputs appears exactly
\* once in the result, as its first occurrence in concatenation order; a record
\* is removed only when an earlier one has the same id and the same timestamp.
C3_MergeKeepsFirstOfEachKey ==
    merged.returned =>
        LET c == Concat(dataframes) IN
        /\ \A i \in 1 .. Len(c) :
               Cardinality({k \in 1 .. Len(merged.rows) : SameKey(merged.rows[k], c[i])}) = 1
        /\ \A k \in 1 .. Len(merged.rows) :
               \E i \in 1 .. Len(c) :
                   /\ merged.rows[k] = c[i]
                   /\ \A j \in 1 .. (i - 1) : ~SameKey(c[j], c[i])

\* C3 witness: the inputs hold a key twice with different payloads, and two
\* records that share an id with different timestamps both survive.
C3_Witness ==
    /\ merged.returned
    /\ \E i, j \in 1 .. Len(Concat(dataframes)) :
           /\ i < j
           /\ SameKey(Concat(dataframes)[i], Concat(dataframes)[j])
           /\ Concat(dataframes)[i].source # Concat(dataframes)[j].source
    /\ \E k, l \in 1 .. Len(merged.rows) :
           /\ merged.rows[k].id = merged.rows[l].id
           /\ merged.rows[k].timestamp # merged.rows[l].timestamp

C12_MergeIdempotent ==
    merged.returned =>
        /\ (Len(dataframes) = 2 /\ dataframes[1] = dataframes[2]) =>
               \A once \in merge_sources(<<dataframes[1]>>) :
                   /\ SeqToSet(once.rows) = SeqToSet(merged.rows)
                   /\ Len(once.rows) = Len(merged.rows)
        /\ \A again \in merge_sources(<<merged.rows>>) :
               /\ SeqToSet(again.rows) = SeqToSet(merged.rows)
               /\ Len(again.rows) = Len(merged.rows)
        /\ (\A i \in 1 .. Len(dataframes) : dataframes[i] = <<>>) =>
               /\ merged.rows = <<>>
               /\ merged.columns = SchemaColumns

\* C12 witness: merge_sources returned for a dataset of two or more records,
\* two of them with the same key, passed twice.
C12_Witness ==
    /\ merged.returned
    /\ Len(dataframes) = 2
    /\ dataframes[1] = dataframes[2]
    /\ Len(dataframes[1]) >= 2
    /\ Len(merged.rows) < Len(dataframes[1])

(***************************************************************************)
(* Claims on assess_quality                                                *)
(***************************************************************************)

\* The weighted sum of the five dimension scores of a report, in 1/1000000.
ReportWeightedSum(r) ==
      25 * r.dimensions.completeness.score + 25 * r.dimensions.accuracy.score
    + 20 * r.dimensions.consistency.score  + 15 * r.dimensions.timeliness.score
    + 15 * r.dimensions.validity.score

\* C1 (as claimed): the overall_score of every report lies in [0, 1].
C1_OverallScoreInUnitInterval ==
    report.returned => (0 <= report.overall_score /\ report.overall_score <= 10000)

\* C9: on an empty dataset assess_quality returns (it does not raise) a report
\* with overall_score 0, overall_status "fail", record_count 0 and exactly one
\* issue, which explains that there is no data.
C9_EmptyDatasetReport ==
    IsEmpty(df) =>
        /\ ENABLED (\E source \in SourceLabels : AssessQuality(source))
        /\ report.returned =>
               /\ report.overall_score = 0
               /\ report.overall_status = "fail"
               /\ report.record_count = 0
               /\ Len(report.issues) = 1
               /\ report.issues[1].issue = "No data to assess"

\* C9 witness: a report returned for a dataset that has columns and no rows.
C9_Witness ==
    /\ report.returned
    /\ df.rows = <<>>
    /\ df.columns # {}

\* C10 (as claimed): the overall score of a non-empty dataset's report is the
\* weighted sum of its five dimension scores, and the status is "pass" when
\* that score is >= 0.85, "warning" when >= 0.70, "fail" otherwise.  (Where the
\* exact sum is 0.85 or 0.70 the floating-point sum can fall on either side, so
\* the status is left unconstrained at those two sums.)
C10_OverallIsWeightedSum ==
    (report.returned /\ ~IsEmpty(df)) =>
        /\ 100 * report.overall_score = ReportWeightedSum(report)
        /\ ReportWeightedSum(report) \notin {850000, 700000} =>
               report.overall_status =
                   (IF report.overall_score >= 8500 THEN "pass"
                    ELSE IF report.overall_score >= 7000 THEN "warning"
                    ELSE "fail")

\* C10 (amended): the overall score is the weighted sum of the five dimension
\* scores rounded to 4 decimals, and the status is decided on the unrounded
\* sum: "pass" above 0.85, "warning" between 0.70 and 0.85, "fail" below 0.70,
\* and one of the two neighbouring statuses when the sum is exactly a threshold.
C10_OverallIsRoundedWeightedSum ==
    (report.returned /\ ~IsEmpty(df)) =>
        LET w == ReportWeightedSum(report) IN
        /\ 100 * report.overall_score - w <= 50
        /\ w - 100 * report.overall_score <= 50
        /\ w > 850000 => report.overall_status = "pass"
        /\ w = 850000 => report.overall_status \in {"pass", "warning"}
        /\ (700000 < w /\ w < 850000) => report.overall_status = "warning"
        /\ w = 700000 => report.overall_status \in {"warning", "fail"}
        /\ w < 700000 => report.overall_status = "fail"

\* C10 witness: a report whose weighted sum lies below 0.70 and is rounded to
\* the overall score 0.70, with the status "fail".
C10_Witness ==
    /\ report.returned
    /\ ~IsEmpty(df)
    /\ ReportWeightedSum(report) < 700000
    /\ report.overall_score = 7000
    /\ report.overall_status = "fail"

(***************************************************************************)
(* Claims on the timeliness dimension                                      *)
(***************************************************************************)

\* The age-bucket weight of a timestamp, in tenths.
BucketWeight(hours) ==
    IF hours <= 24 THEN 10 ELSE IF hours <= 168 THEN 9 ELSE IF hours <= 720 THEN 7 ELSE 5

Timeliness == report.dimensions.timeliness

\* The sums of weights the records can have when each record with an age
\* takes its bucket weight and each record without one takes any of the four.
RECURSIVE WeightSums(_)
WeightSums(rows) ==
    IF rows = <<>> THEN {0}
    ELSE LET t == Head(rows).timestamp
             own == IF t.kind = "age" THEN {BucketWeight(t.hours)} ELSE {10, 9, 7, 5}
         IN  {w + rest : w \in own, rest \in WeightSums(Tail(rows))}

\* The sum of the bucket weights of the records that have an age.
RECURSIVE AgedWeightSum(_)
AgedWeightSum(rows) ==
    IF rows = <<>> THEN 0
    ELSE (IF Head(rows).timestamp.kind = "age"
          THEN BucketWeight(Head(rows).timestamp.hours) ELSE 0)
         + AgedWeightSum(Tail(rows))

FutureCount(rows) ==
    Cardinality({i \in 1 .. Len(rows) :
                    rows[i].timestamp.kind = "age" /\ rows[i].timestamp.hours < 0})

AllParsable(rows) == \A i \in 1 .. Len(rows) : rows[i].timestamp.kind # "unparsable"
SomeAged(rows) == \E i \in 1 .. Len(rows) : rows[i].timestamp.kind = "age"

\* C18 (as claimed): the timeliness score is the average over all records of
\* the record's age-bucket weight, every record taking exactly one of the
\* four weights; future-dated records are counted and reported but weigh 1.0;
\* timestamps all equal to the evaluation instant score 1.0 with no flag.
C18_TimelinessIsAverageOfBucketWeights ==
    (report.returned /\ "timestamp" \in df.columns
     /\ AllParsable(df.rows) /\ SomeAged(df.rows)) =>
        /\ \E sum \in WeightSums(df.rows) :
               Timeliness.score = Round4(sum, 10 * Len(df.rows))
        /\ Timeliness.future_timestamps = FutureCount(df.rows)
        /\ (FutureCount(df.rows) > 0) <=>
               (\E i \in 1 .. Len(Timeliness.issues) :
                    Timeliness.issues[i].issue = "records have future timestamps")

\* C18 (amended): the timeliness score is the sum of the age-bucket weights
\* of the records that have a timestamp, divided by the number of all
\* records: a record with a missing timestamp adds 0.  Future-dated records
\* are counted and reported and weigh 1.0; timestamps all equal to the
\* evaluation instant score 1.0 with no flag.
C18_TimelinessAveragesAgedRecords ==
    (report.returned /\ "timestamp" \in df.columns
     /\ AllParsable(df.rows) /\ SomeAged(df.rows)) =>
        /\ Timeliness.score = Round4(AgedWeightSum(df.rows), 10 * Len(df.rows))
        /\ Timeliness.future_timestamps = FutureCount(df.rows)
        /\ (FutureCount(df.rows) > 0) <=>
               (\E i \in 1 .. Len(Timeliness.issues) :
                    Timeliness.issues[i].issue = "records have future timestamps")
        /\ (\A i \in 1 .. Len(df.rows) :
                df.rows[i].timestamp = [kind |-> "age", hours |-> 0]) =>
               (Timeliness.score = 10000 /\ Timeliness.future_timestamps = 0)

\* C18 witness: a report on records of different buckets, one of them
\* future-dated and one without a timestamp.
C18_Witness ==
    /\ report.returned
    /\ "timestamp" \in df.columns
    /\ AllParsable(df.rows)
    /\ FutureCount(df.rows) = 1
    /\ \E i \in 1 .. Len(df.rows) : df.rows[i].timestamp.kind = "NaT"
    /\ \E i \in 1 .. Len(df.rows) :
           df.rows[i].timestamp.kind = "age" /\ df.rows[i].timestamp.hours > 24

\* C19 (as claimed): on a non-empty dataset with some unparsable timestamps
\* assess_quality returns, the records with parsable timestamps contribute
\* their age-bucket weights to the timeliness score, and the timeliness
\* status is "pass" or "fail".
C19_UnparsableTimestampsCoerced ==
    (report.returned /\ "timestamp" \in df.columns /\ ~AllParsable(df.rows)) =>
        /\ Timeliness.status \in {"pass", "fail"}
        /\ Timeliness.score = Round4(AgedWeightSum(df.rows), 10 * Len(df.rows))

(***************************************************************************)
(* Claims on the analyzer's risk scores and trends                         *)
(***************************************************************************)

\* C7: the entries risk_score_4d returns are in non-increasing order of
\* risk_score: every entry's score is at least the score of the next entry.
C7_RiskScoresNonIncreasing ==
    (pivot_result.op = "risk_score_4d" /\ pivot_result.outcome = "returned") =>
        \A i \in 1 .. (Len(pivot_result.rows) - 1) :
            pivot_result.rows[i].risk_score.num * pivot_result.rows[i + 1].risk_score.den
                >= pivot_result.rows[i + 1].risk_score.num * pivot_result.rows[i].risk_score.den

\* C7 witness: risk_score_4d returned two entries of different scores, and
\* the one computed first has the lower score.
C7_Witness ==
    /\ pivot_result.op = "risk_score_4d"
    /\ pivot_result.outcome = "returned"
    /\ Len(pivot_result.rows) = 2
    /\ ~FracGeq(pivot_result.rows[2].risk_score, pivot_result.rows[1].risk_score)
    /\ risk_scores(pivot_df, pivot_result.time_window)[1] = pivot_result.rows[2]

\* The distinct days on which the dataset has an event of the group
\* (region, type, severity) within time_window days of its latest timestamp.
DaysInWindow(rg, ty, sv, time_window) ==
    {pivot_df[i].date_only : i \in
        {j \in 1 .. Len(pivot_df) :
            /\ pivot_df[j].region = rg
            /\ pivot_df[j].type_category = ty
            /\ pivot_df[j].severity = sv
            /\ \A k \in 1 .. Len(pivot_df) :
                   pivot_df[j].timestamp >= pivot_df[k].timestamp - 2 * time_window}}

\* C8: every group in the result of trend_analysis_4d has at least 3 distinct
\* days among the events within time_window days of the dataset's latest
\* timestamp, and no group of the dataset with fewer than 3 such days is in
\* the result.
C8_TrendGroupsHaveThreeDays ==
    (pivot_result.op = "trend_analysis_4d" /\ pivot_result.outcome = "returned") =>
        /\ \A i \in 1 .. Len(pivot_result.rows) :
               Cardinality(DaysInWindow(pivot_result.rows[i].region,
                                        pivot_result.rows[i].type,
                                        pivot_result.rows[i].severity,
                                        pivot_result.time_window)) >= 3
        /\ \A j \in 1 .. Len(pivot_df) :
               Cardinality(DaysInWindow(pivot_df[j].region, pivot_df[j].type_category,
                                        pivot_df[j].severity,
                                        pivot_result.time_window)) < 3
               => \A i \in 1 .. Len(pivot_result.rows) :
                      \/ pivot_result.rows[i].region # pivot_df[j].region
                      \/ pivot_result.rows[i].type # pivot_df[j].type_category
                      \/ pivot_result.rows[i].severity # pivot_df[j].severity

\* C8 witness: trend_analysis_4d returned a group, and left out another group
\* that has events on one or two days of the window.
C8_Witness ==
    /\ pivot_result.op = "trend_analysis_4d"
    /\ pivot_result.outcome = "returned"
    /\ Len(pivot_result.rows) = 1
    /\ \E j \in 1 .. Len(pivot_df) :
           /\ DaysInWindow(pivot_df[j].region, pivot_df[j].type_category,
                           pivot_df[j].severity, pivot_result.time_window) # {}
           /\ \/ pivot_result.rows[1].region # pivot_df[j].region
              \/ pivot_result.rows[1].severity # pivot_df[j].severity

\* The positions of the records of the group (region, type) within
\* time_window days, and within days days, of the dataset's latest timestamp.
GroupWithin(rg, ty, days) ==
    {j \in 1 .. Len(pivot_df) :
        /\ pivot_df[j].region = rg
        /\ pivot_df[j].type_category = ty
        /\ \A k \in 1 .. Len(pivot_df) :
               pivot_df[j].timestamp >= pivot_df[k].timestamp - 2 * days}

RECURSIVE SumLevels(_)
SumLevels(positions) ==
    IF positions = {} THEN 0
    ELSE LET j == CHOOSE x \in positions : TRUE
         IN  pivot_df[j].severity_level + SumLevels(positions \ {j})

\* C16: every (region, type) group with a record in the window has one entry
\* in the result of risk_score_4d, and the entry's risk_score is
\* 0.4 * count / windowDays + 0.4 * mean severity level
\* + 0.2 * 2 * (number of the group's records in the last day); 14 events in
\* 7 days with mean level 2.0 and none in the last day score 1.6.
C16_RiskScoreFormula ==
    (pivot_result.op = "risk_score_4d" /\ pivot_result.outcome = "returned") =>
        /\ \A j \in 1 .. Len(pivot_df) :
               LET rg == pivot_df[j].region
                   ty == pivot_df[j].type_category
                   w == pivot_result.time_window
                   group == GroupWithin(rg, ty, w)
                   count == Cardinality(group)
                   last == Cardinality(GroupWithin(rg, ty, 1) \cap group)
                   entries == {i \in 1 .. Len(pivot_result.rows) :
                                  /\ pivot_result.rows[i].region = rg
                                  /\ pivot_result.rows[i].type = ty}
               IN  group # {} =>
                       /\ Cardinality(entries) = 1
                       /\ \A i \in entries :
                              \* score = 4/10 * count/w + 4/10 * sum/count + 2/10 * 2*last
                              pivot_result.rows[i].risk_score.num * (10 * w * count)
                                  = pivot_result.rows[i].risk_score.den
                                    * (4 * count * count + 4 * SumLevels(group) * w
                                       + 2 * (2 * last) * w * count)
        /\ total_risk(14, 7, 28, 0).num * 10 = 16 * total_risk(14, 7, 28, 0).den

\* C16 witness: risk_score_4d with a window of 2 days returned an entry for a
\* group of several records, not all of them in the last day, of a mean
\* severity level above 0.
C16_Witness ==
    /\ pivot_result.op = "risk_score_4d"
    /\ pivot_result.outcome = "returned"
    /\ pivot_result.time_window = 2
    /\ \E i \in 1 .. Len(pivot_result.rows) :
           /\ pivot_result.rows[i].total_events >= 2
           /\ pivot_result.rows[i].recency > 0
           /\ pivot_result.rows[i].recency < 2 * pivot_result.rows[i].total_events
           /\ pivot_result.rows[i].severity.num > 0

(***************************************************************************)
(* Claims on multi_dimensional_query                                       *)
(***************************************************************************)

\* Does the record satisfy every predicate that is given?  A type or severity
\* predicate is satisfied when a requested string, upper-cased, is the
\* record's type_category (respectively severity).
SatisfiesAll(r, time_range, regions, types, severities) ==
    /\ time_range.given =>
           (r.timestamp >= time_range.value[1] /\ r.timestamp <= time_range.value[2])
    /\ regions.given => r.region \in SeqToSet(regions.value)
    /\ types.given => r.type_category \in {Upper(t) : t \in SeqToSet(types.value)}
    /\ severities.given => r.severity \in {Upper(v) : v \in SeqToSet(severities.value)}

\* An empty list read as an argument that was left out.
EmptyAsOmitted(argument) == IF argument.value = <<>> THEN Omitted ELSE argument

\* C13 (as claimed): multi_dimensional_query returns exactly the records that
\* satisfy every supplied predicate, an argument being supplied when it is
\* not None.
C13_QueryReturnsExactlyMatching ==
    pivot_result.op = "multi_dimensional_query" =>
        pivot_result.rows =
            Pick(pivot_df,
                 {i \in 1 .. Len(pivot_df) :
                     SatisfiesAll(pivot_df[i], pivot_args.time_range, pivot_args.regions,
                                  pivot_args.types, pivot_args.severities)}, 1)

\* C13 (amended): multi_dimensional_query returns, in their order, exactly
\* the records that satisfy every predicate given as a non-empty value; an
\* argument left out or given as an empty list filters nothing.
C13_QueryReturnsMatchingOfNonEmpty ==
    pivot_result.op = "multi_dimensional_query" =>
        pivot_result.rows =
            Pick(pivot_df,
                 {i \in 1 .. Len(pivot_df) :
                     SatisfiesAll(pivot_df[i],
                                  EmptyAsOmitted(pivot_args.time_range),
                                  EmptyAsOmitted(pivot_args.regions),
                                  EmptyAsOmitted(pivot_args.types),
                                  EmptyAsOmitted(pivot_args.severities))}, 1)

\* C13 witness: a query with all four predicates given returned some of the
\* records and left out others.
C13_Witness ==
    /\ pivot_result.op = "multi_dimensional_query"
    /\ Truthy(pivot_args.time_range) /\ Truthy(pivot_args.regions)
    /\ Truthy(pivot_args.types) /\ Truthy(pivot_args.severities)
    /\ pivot_result.rows # <<>>
    /\ Len(pivot_result.rows) < Len(pivot_df)

\* C14 (as claimed): type and severity matching is case-insensitive: a record
\* passes the type (severity) filter exactly when its type (severity) equals
\* a requested string ignoring letter case, whatever the case stored.
C14_QueryMatchingIgnoresCase ==
    pivot_result.op = "multi_dimensional_query" =>
        pivot_result.rows =
            Pick(pivot_df,
                 {i \in 1 .. Len(pivot_df) :
                     /\ SatisfiesAll(pivot_df[i],
                                     EmptyAsOmitted(pivot_args.time_range),
                                     EmptyAsOmitted(pivot_args.regions), Omitted, Omitted)
                     /\ Truthy(pivot_args.types) =>
                            \E k \in 1 .. Len(pivot_args.types.value) :
                                Upper(pivot_args.types.value[k]) = Upper(pivot_df[i].type)
                     /\ Truthy(pivot_args.severities) =>
                            \E k \in 1 .. Len(pivot_args.severities.value) :
                                Upper(pivot_args.severities.value[k])
                                    = Upper(pivot_df[i].severity)}, 1)

(***************************************************************************)
(* Claims on create_4d_pivot                                               *)
(***************************************************************************)

\* C15 (as claimed): create_4d_pivot on a non-empty dataset returns a
\* non-empty pivot table whose cells count all the records, whether or not
\* the dimension names and the value field are columns of the enriched data.
C15_PivotFallsBackOnInvalidNames ==
    (pivot_result.op = "create_4d_pivot" /\ pivot_df # <<>>) =>
        /\ pivot_result.outcome = "returned"
        /\ pivot_result.rows # {}
        /\ \E cell \in pivot_result.rows : cell.value > 0

\* With every dimension a column, the table is not empty, whatever the value
\* field.
PivotOfValidDimensions ==
    (/\ pivot_result.op = "create_4d_pivot"
     /\ \A dim \in {pivot_args.time_dim, pivot_args.geo_dim, pivot_args.type_dim,
                    pivot_args.severity_dim} : isin(dim, PivotColumns))
        => \E cell \in pivot_result.rows : cell.value > 0

(***************************************************************************)
(* Claims on compare_sources                                               *)
(***************************************************************************)

\* C17 (as claimed): for a non-empty list of reports, best_source is the
\* source of a report whose overall_score is the maximum over the reports
\* and worst_source the source of a report whose overall_score is the
\* minimum; for an empty list the result is the empty structure.
C17_BestAndWorstSource ==
    comparison.returned =>
        IF reports = <<>>
        THEN comparison.empty
        ELSE /\ ~comparison.empty
             /\ \E i \in 1 .. Len(reports) :
                    /\ reports[i].source = comparison.best_source
                    /\ \A j \in 1 .. Len(reports) :
                           reports[j].overall_score <= reports[i].overall_score
             /\ \E i \in 1 .. Len(reports) :
                    /\ reports[i].source = comparison.worst_source
                    /\ \A j \in 1 .. Len(reports) :
                           reports[j].overall_score >= reports[i].overall_score

\* With every source label on one report only, best_source and worst_source
\* are the sources of the highest and of the lowest score.
BestAndWorstOfDistinctSources ==
    (/\ comparison.returned
     /\ \A i, j \in 1 .. Len(reports) : reports[i].source = reports[j].source => i = j)
        => C17_BestAndWorstSource

(***************************************************************************)
(* Claims on the source adapters                                           *)
(***************************************************************************)

NumberOrAbsent(v) == v.kind \in {"number", "absent"}
ListOrAbsent(v) == v.kind \in {"list", "absent"}
DateOrAbsent(v) == v.kind \in {"iso", "absent"}

\* An item is well formed when every field an adapter converts has the shape
\* the provider documents, or is left out; a NASA event needs a geometry.
WellFormed(adapter, item) ==
    CASE adapter = "USGS" ->
             /\ NumberOrAbsent(item.mag)
             /\ ListOrAbsent(item.coordinates)
             /\ NumberOrAbsent(item.time)
      [] adapter = "NASA" ->
             /\ item.geometry # <<>>
             /\ ListOrAbsent(item.geometry[Len(item.geometry)].coordinates)
             /\ DateOrAbsent(item.geometry[Len(item.geometry)].date)
      [] adapter = "GDACS" ->
             /\ NumberOrAbsent(item.magnitude)
             /\ NumberOrAbsent(item.population)
             /\ NumberOrAbsent(item.latitude)
             /\ NumberOrAbsent(item.longitude)
             /\ DateOrAbsent(item.fromdate)
      [] OTHER -> FALSE

WellFormedItems(data) ==
    SelectSeq(data.items, LAMBDA item : WellFormed(data.adapter, item))

C20_AllMalformedReached ==
    /\ adapted.returned
    /\ raw_data.items # <<>>
    /\ WellFormedItems(raw_data) = <<>>
    /\ adapted = create_empty_dataframe

(***************************************************************************)
(* Claims on the quality history                                           *)
(***************************************************************************)

\* C21 (as claimed): after any sequence of assess_quality calls on one
\* monitor, with empty or non-empty datasets, the history holds exactly the
\* returned reports in call order.
C21_HistoryHoldsEveryReturnedReport ==
    quality_history = returned_reports

\* What holds instead: the history holds, in call order, the returned reports
\* of the calls on non-empty datasets.
HistoryHoldsNonEmptyReports ==
    quality_history = SelectSeq(returned_reports, LAMBDA r : r.record_count > 0)

\* C22 (as claimed): the history is bounded: its length stays below a fixed
\* bound, here any bound smaller than the number of calls made.
C22_HistoryBounded ==
    Len(quality_history) < MaxCalls

\* C23 (as claimed): get_quality_trend(limit) with limit >= 0 returns the
\* last min(limit, length of the history) reports in their original order,
\* so never more than limit reports.
C23_TrendIsLastN ==
    trend.called =>
        LET n == Len(quality_history)
            k == IF trend.limit < n THEN trend.limit ELSE n
        IN  /\ trend.result = SubSeq(quality_history, n - k + 1, n)
            /\ Len(trend.result) <= trend.limit

\* What holds instead: the claim for every limit >= 1.
TrendIsLastNOfPositiveLimit ==
    (trend.called /\ trend.limit >= 1) => C23_TrendIsLastN

(***************************************************************************)
(* Claims on the analyzer's input and its enrichment                       *)
(***************************************************************************)

\* C24: assess_quality(df), the construction of a FourDimensionalPivotTable
\* from a dataset, and every analysis called on the analyzer afterwards leave
\* the caller's dataset with the columns, rows and values it had.
C24_InputsNotMutated ==
    [][input_df' = input_df /\ df' = df]_vars

\* C24 witness: an analyzer was built from the canonical dataset and an
\* analysis has returned; the dataset still has the canonical columns.
C24_Witness ==
    /\ pivot_df # <<>>
    /\ pivot_result.op # NoAnalysis.op
    /\ input_df.columns = SeqToSet(SchemaColumns)

\* C24, quality side: a report was returned for a non-empty dataset.
C24_AssessedReached ==
    /\ report.returned
    /\ ~IsEmpty(df)

\* C25 (as claimed): for a canonical dataset (coordinates in the columns
\* latitude and longitude) the region of each enriched record is the region
\* of that record's latitude and longitude.
C25_RegionFromOwnCoordinates ==
    (pivot_df # <<>> /\ input_df.columns = SeqToSet(SchemaColumns)) =>
        \A i \in 1 .. Len(pivot_df) :
            pivot_df[i].region =
                _classify_region([lat |-> input_df.rows[i].latitude,
                                  lng |-> input_df.rows[i].longitude])

\* What holds instead: the region is that of the record's own coordinates
\* when the dataset holds them in lat/lng columns or in a coordinates column,
\* and the region of (0, 0) for every record of a canonical dataset.
RegionFromLatLngColumns ==
    pivot_df # <<>> =>
        \A i \in 1 .. Len(pivot_df) :
            pivot_df[i].region =
                IF input_df.columns = SeqToSet(SchemaColumns)
                THEN _classify_region([lat |-> 0, lng |-> 0])
                ELSE _classify_region([lat |-> input_df.rows[i].latitude,
                                       lng |-> input_df.rows[i].longitude])

CanonicalSeverities == {"low", "medium", "high", "critical"}

\* C29 (as claimed): of two enriched records with canonical severities, the
\* one of the higher severity has the strictly higher severity level.
C29_SeverityLevelFollowsSeverity ==
    \A i, j \in 1 .. Len(pivot_df) :
        (/\ pivot_df[i].severity \in CanonicalSeverities
         /\ pivot_df[j].severity \in CanonicalSeverities
         /\ SeverityRank(pivot_df[i].severity) < SeverityRank(pivot_df[j].severity))
            => pivot_df[i].severity_level < pivot_df[j].severity_level

\* What holds instead: every record of a canonical severity has level 0.
CanonicalSeverityLevelIsZero ==
    \A i \in 1 .. Len(pivot_df) :
        pivot_df[i].severity \in CanonicalSeverities => pivot_df[i].severity_level = 0

(***************************************************************************)
(* Claims on the ETL processor                                             *)
(***************************************************************************)

\* Number of canonical records an adapter makes of a payload argument: one
\* for each well-formed item, none for a payload that was not supplied.
AdapterCount(adapter, payload) ==
    IF payload.given
    THEN Len(WellFormedItems([adapter |-> adapter, items |-> payload.value]))
    ELSE 0

\* C26 (as claimed): in the result of merge_multi_source_data, for every
\* combination of supplied and omitted sources, each entry of source_records
\* is the number of canonical records the adapter made of that source's
\* payload (0 when the source was not supplied), and total_records is at
\* most their sum.
C26_SourceRecordsPerSource ==
    etl_result.op = "merge_multi_source_data" =>
        /\ etl_result.source_records.USGS = AdapterCount("USGS", etl_args.usgs_data)
        /\ etl_result.source_records.NASA = AdapterCount("NASA", etl_args.nasa_data)
        /\ etl_result.source_records.GDACS = AdapterCount("GDACS", etl_args.gdacs_data)
        /\ etl_result.total_records <=
               AdapterCount("USGS", etl_args.usgs_data)
               + AdapterCount("NASA", etl_args.nasa_data)
               + AdapterCount("GDACS", etl_args.gdacs_data)

\* What holds instead: the counts are right when every source before a
\* supplied one is supplied too, and total_records is at most the sum of the
\* adapters' counts in every case.
SourceRecordsOfLeadingSources ==
    (/\ etl_result.op = "merge_multi_source_data"
     /\ Truthy(etl_args.nasa_data) => Truthy(etl_args.usgs_data)
     /\ Truthy(etl_args.gdacs_data) => Truthy(etl_args.usgs_data) /\ Truthy(etl_args.nasa_data))
        => C26_SourceRecordsPerSource

TotalRecordsAtMostSum ==
    etl_result.op = "merge_multi_source_data" =>
        etl_result.total_records <=
            AdapterCount("USGS", etl_args.usgs_data)
            + AdapterCount("NASA", etl_args.nasa_data)
            + AdapterCount("GDACS", etl_args.gdacs_data)

\* C27 (as claimed): on an empty dataset ETLProcessor.assess_data_quality
\* returns the empty report's result (overallScore 0, status "fail", the
\* issue 'No data to assess'), not an error result.
C27_EmptyDatasetQualityResult ==
    (etl_result.op = "assess_data_quality" /\ IsEmpty(df)) =>
        /\ ~etl_result.error
        /\ etl_result.overallScore = 0
        /\ etl_result.status = "fail"
        /\ etl_result.issues = <<Issue("No data to assess", "")>>

\* What holds instead: the call returns the error result exactly on the
\* empty datasets.
QualityResultIsErrorOnEmpty ==
    etl_result.op = "assess_data_quality" => (etl_result.error <=> IsEmpty(df))

(***************************************************************************)
(* Claims on comprehensive_analysis                                        *)
(***************************************************************************)

\* C28 (as claimed): in every interleaving of the statistical, prediction and
\* risk tasks none of them modifies the shared dataset: it keeps the columns
\* convert_to_dataframe produced, every task reads those columns, and so
\* does the quality assessment made after the tasks.
C28_TasksLeaveDatasetAlone ==
    /\ df_columns = converted_columns
    /\ \A reader \in Tasks \cup {"quality"} :
           observed[reader] \in {NotRead, converted_columns}

(***************************************************************************)
(* Claims on the result caches                                             *)
(***************************************************************************)

\* C30 (as claimed): a lookup returns a cached entry only if the time elapsed
\* since the entry was stored is less than the TTL of 300 seconds, whatever
\* the entry's age; an entry found older than that is a miss.
C30_CacheHitOnlyWithinTtl ==
    lookup.found => (lookup.hit <=> lookup.elapsed < 300)

\* What holds instead: a found entry is returned exactly when its age modulo
\* one day is less than the TTL.
CacheHitWithinTtlModuloDay ==
    lookup.found => (lookup.hit <=> (lookup.elapsed % 86400) < 300)

(***************************************************************************)
(* Specifications                                                          *)
(***************************************************************************)

IdleRow == [lat |-> 0, lng |-> 0]

InitSeverity ==
    /\ severity_calls = <<>>
    /\ AdapterIdle
    /\ CacheIdle
    /\ AnalysisIdle
    /\ EtlIdle
    /\ InputIdle
    /\ HistoryIdle
    /\ row = IdleRow
    /\ region = NotCalled
    /\ dataframes = <<>>
    /\ merged = NoResult
    /\ QualityIdle
    /\ PivotIdle

NextSeverity ==
    \E t \in HazardTypes, m \in Magnitudes : CalculateSeverity(t, m)

SpecSeverity == InitSeverity /\ [][NextSeverity]_vars

InitRegion ==
    /\ severity_calls = <<>>
    /\ AdapterIdle
    /\ CacheIdle
    /\ AnalysisIdle
    /\ EtlIdle
    /\ InputIdle
    /\ HistoryIdle
    /\ row \in [lat : Latitudes, lng : Longitudes]
    /\ region = NotCalled
    /\ dataframes = <<>>
    /\ merged = NoResult
    /\ QualityIdle
    /\ PivotIdle

NextRegion == ClassifyRegion

SpecRegion == InitRegion /\ [][NextRegion]_vars

InitMerge ==
    /\ severity_calls = <<>>
    /\ AdapterIdle
    /\ CacheIdle
    /\ AnalysisIdle
    /\ EtlIdle
    /\ InputIdle
    /\ HistoryIdle
    /\ row = IdleRow
    /\ region = NotCalled
    /\ dataframes = <<>>
    /\ merged = NoResult
    /\ QualityIdle
    /\ PivotIdle

NextMerge ==
    \/ AddDataframe
    \/ \E r \in MergeRecords : AddRecord(r)
    \/ AddSameDataframe
    \/ MergeSources

SpecMerge == InitMerge /\ [][NextMerge]_vars

InitQuality ==
    /\ severity_calls = <<>>
    /\ AdapterIdle
    /\ CacheIdle
    /\ AnalysisIdle
    /\ EtlIdle
    /\ InputIdle
    /\ HistoryIdle
    /\ row = IdleRow
    /\ region = NotCalled
    /\ dataframes = <<>>
    /\ merged = NoResult
    /\ df \in [columns : QualityColumnSets, rows : QualityRowSeqs]
    /\ report = NoReport
    /\ quality_history = <<>>
    /\ reports = <<>>
    /\ comparison = NoComparison
    /\ PivotIdle

NextQuality == \E source \in SourceLabels : AssessQuality(source)

SpecQuality == InitQuality /\ [][NextQuality]_vars

InitPivot ==
    /\ severity_calls = <<>>
    /\ AdapterIdle
    /\ CacheIdle
    /\ AnalysisIdle
    /\ EtlIdle
    /\ InputIdle
    /\ HistoryIdle
    /\ row = IdleRow
    /\ region = NotCalled
    /\ dataframes = <<>>
    /\ merged = NoResult
    /\ QualityIdle
    /\ pivot_df \in {_preprocess_data(raw) : raw \in PivotRowSeqs}
    /\ pivot_result = NoAnalysis
    /\ pivot_args = NoArgs

NextPivot ==
    \/ \E time_window \in TimeWindows : RiskScore4d(time_window)
    \/ \E time_window \in TimeWindows : TrendAnalysis4d(time_window)

SpecPivot == InitPivot /\ [][NextPivot]_vars

InitQuery ==
    /\ severity_calls = <<>>
    /\ AdapterIdle
    /\ CacheIdle
    /\ AnalysisIdle
    /\ EtlIdle
    /\ InputIdle
    /\ HistoryIdle
    /\ row = IdleRow
    /\ region = NotCalled
    /\ dataframes = <<>>
    /\ merged = NoResult
    /\ QualityIdle
    /\ pivot_df \in {_preprocess_data(raw) : raw \in QueryRowSeqs}
    /\ pivot_result = NoAnalysis
    /\ pivot_args = NoArgs

NextQuery ==
    \E time_range \in QueryTimeRanges, regions \in QueryRegions,
       types \in QueryTypes, severities \in QuerySeverities :
        MultiDimensionalQuery(time_range, regions, types, severities)

NextPivotTable ==
    \E time_dim \in TimeDims, geo_dim \in GeoDims, type_dim \in TypeDims,
       severity_dim \in SeverityDims, values_col \in ValuesCols :
        Create4dPivot(time_dim, geo_dim, type_dim, severity_dim, values_col)

SpecPivotTable == InitQuery /\ [][NextPivotTable]_vars

SpecQuery == InitQuery /\ [][NextQuery]_vars

InitCompare ==
    /\ severity_calls = <<>>
    /\ AdapterIdle
    /\ CacheIdle
    /\ AnalysisIdle
    /\ EtlIdle
    /\ InputIdle
    /\ HistoryIdle
    /\ row = IdleRow
    /\ region = NotCalled
    /\ dataframes = <<>>
    /\ merged = NoResult
    /\ df = [columns |-> {}, rows |-> <<>>]
    /\ report = NoReport
    /\ quality_history = <<>>
    /\ reports \in ReportSeqs
    /\ comparison = NoComparison
    /\ PivotIdle

NextCompare == CompareSources

SpecCompare == InitCompare /\ [][NextCompare]_vars

InitTimeliness ==
    /\ severity_calls = <<>>
    /\ AdapterIdle
    /\ CacheIdle
    /\ AnalysisIdle
    /\ EtlIdle
    /\ InputIdle
    /\ HistoryIdle
    /\ row = IdleRow
    /\ region = NotCalled
    /\ dataframes = <<>>
    /\ merged = NoResult
    /\ df \in [columns : {SeqToSet(SchemaColumns)}, rows : TimelinessRowSeqs]
    /\ report = NoReport
    /\ quality_history = <<>>
    /\ reports = <<>>
    /\ comparison = NoComparison
    /\ PivotIdle

SpecTimeliness == InitTimeliness /\ [][NextQuality]_vars

InitAdapters ==
    /\ severity_calls = <<>>
    /\ CacheIdle
    /\ AnalysisIdle
    /\ EtlIdle
    /\ InputIdle
    /\ HistoryIdle
    /\ raw_data \in RawData
    /\ adapted = NoResult
    /\ row = IdleRow
    /\ region = NotCalled
    /\ dataframes = <<>>
    /\ merged = NoResult
    /\ QualityIdle
    /\ PivotIdle

NextAdapters == TransformUsgs \/ TransformNasa \/ TransformGdacs

SpecAdapters == InitAdapters /\ [][NextAdapters]_vars

InitHistory ==
    /\ severity_calls = <<>>
    /\ AdapterIdle
    /\ CacheIdle
    /\ AnalysisIdle
    /\ EtlIdle
    /\ InputIdle
    /\ HistoryIdle
    /\ row = IdleRow
    /\ region = NotCalled
    /\ dataframes = <<>>
    /\ merged = NoResult
    /\ QualityIdle
    /\ PivotIdle

NextHistory ==
    \/ \E d \in HistoryDatasets, source \in SourceLabels : AssessQualityCall(d, source)
    \/ \E limit \in TrendLimits : GetQualityTrend(limit)

SpecHistory == InitHistory /\ [][NextHistory]_vars

InitEnrich ==
    /\ severity_calls = <<>>
    /\ AdapterIdle
    /\ CacheIdle
    /\ AnalysisIdle
    /\ EtlIdle
    /\ HistoryIdle
    /\ input_df \in InputDatasets
    /\ row = IdleRow
    /\ region = NotCalled
    /\ dataframes = <<>>
    /\ merged = NoResult
    /\ df \in {d \in HistoryDatasets : d.columns = {} \/ d.rows # <<>>}
    /\ report = NoReport
    /\ quality_history = <<>>
    /\ reports = <<>>
    /\ comparison = NoComparison
    /\ PivotIdle

NextEnrich ==
    \/ NewPivotTable
    \/ pivot_df # <<>> /\ NextPivot
    \/ /\ pivot_df # <<>>
       /\ \E regions \in QueryRegions :
              MultiDimensionalQuery(Omitted, regions, Omitted, Omitted)
    \/ /\ pivot_df # <<>>
       /\ \E time_dim \in TimeDims :
              Create4dPivot(time_dim, "region", "type_category", "severity", "lat")
    \/ NextQuality

SpecEnrich == InitEnrich /\ [][NextEnrich]_vars

InitEtlMerge ==
    /\ severity_calls = <<>>
    /\ AdapterIdle
    /\ CacheIdle
    /\ AnalysisIdle
    /\ HistoryIdle
    /\ InputIdle
    /\ etl_args \in EtlArgs
    /\ etl_result = NoEtlResult
    /\ row = IdleRow
    /\ region = NotCalled
    /\ dataframes = <<>>
    /\ merged = NoResult
    /\ QualityIdle
    /\ PivotIdle

NextEtlMerge == MergeMultiSourceData

SpecEtlMerge == InitEtlMerge /\ [][NextEtlMerge]_vars

InitEtlQuality ==
    /\ severity_calls = <<>>
    /\ AdapterIdle
    /\ CacheIdle
    /\ AnalysisIdle
    /\ HistoryIdle
    /\ InputIdle
    /\ etl_args \in {[op |-> "assess_data_quality", source |-> s] : s \in SourceLabels}
    /\ etl_result = NoEtlResult
    /\ row = IdleRow
    /\ region = NotCalled
    /\ dataframes = <<>>
    /\ merged = NoResult
    /\ df \in EtlDatasets
    /\ report = NoReport
    /\ quality_history = <<>>
    /\ reports = <<>>
    /\ comparison = NoComparison
    /\ PivotIdle

NextEtlQuality == AssessDataQuality

SpecEtlQuality == InitEtlQuality /\ [][NextEtlQuality]_vars

InitAnalysis ==
    /\ severity_calls = <<>>
    /\ AdapterIdle
    /\ CacheIdle
    /\ EtlIdle
    /\ HistoryIdle
    /\ InputIdle
    /\ converted_columns \in {HazardColumns, {}}
    /\ df_columns = converted_columns
    /\ task_pc = [task \in Tasks |-> "start"]
    /\ observed = [reader \in Tasks \cup {"quality"} |-> NotRead]
    /\ row = IdleRow
    /\ region = NotCalled
    /\ dataframes = <<>>
    /\ merged = NoResult
    /\ QualityIdle
    /\ PivotIdle

NextAnalysis ==
    \/ Validate("statistical", {"type", "timestamp"})
    \/ Validate("prediction", {"type", "timestamp"})
    \/ Validate("risk", {"type"})
    \/ \E cached \in BOOLEAN : CacheLookup(cached)
    \/ StatisticalAnalyses
    \/ PredictionModels
    \/ RiskScores
    \/ RiskTemporal
    \/ AssessAfterGather

SpecAnalysis == InitAnalysis /\ [][NextAnalysis]_vars

InitCache ==
    /\ severity_calls = <<>>
    /\ AdapterIdle
    /\ AnalysisIdle
    /\ EtlIdle
    /\ HistoryIdle
    /\ InputIdle
    /\ CacheIdle
    /\ row = IdleRow
    /\ region = NotCalled
    /\ dataframes = <<>>
    /\ merged = NoResult
    /\ QualityIdle
    /\ PivotIdle

NextCache ==
    \/ \E delta \in TickSizes : Tick(delta)
    \/ \E key \in CacheKeys : SaveToCache(key)
    \/ \E key \in CacheKeys : GetFromCache(key)

SpecCache == InitCache /\ [][NextCache]_vars

====
